---------------------------- MODULE Spec2Model ----------------------------
(***************************************************************************)
(* The synchronisation pipeline of cy-collects: the continuation-mode      *)
(* endpoint (api/sync.ts), the driver-mode endpoint draft, the in-browser  *)
(* driver (services/syncService.ts) and the store writer of DbContext.     *)
(***************************************************************************)
EXTENDS Integers, Sequences, FiniteSets, TLC

(***************************************************************************)
(* Bounds of the model.                                                    *)
(***************************************************************************)
\* the mock upstream serves at most MaxPages non-empty card pages
MaxPages == 2
\* number of store-writer calls of one behaviour of SpecDb
MaxDbCalls == 3
\* the pageSize of the cursors of the overlapping callers of SpecOverlap
RunPageSize == 2

(***************************************************************************)
(* Program constants.                                                      *)
(***************************************************************************)
\* `const pageSize = 250` of both drivers, and the endpoint's default
DriverPageSize == 250
DefaultPageSize == 250
DefaultPage == 1

(***************************************************************************)
(* JavaScript values, tagged with their typeof.                            *)
(***************************************************************************)
Undefined == [t |-> "undefined"]
Null == [t |-> "null"]
Str(s) == [t |-> "string", v |-> s]
Num(n) == [t |-> "number", v |-> n]
Obj(o) == [t |-> "object", v |-> o]
Fn == [t |-> "function"]
Bool(b) == [t |-> "boolean", v |-> b]
Arr(a) == [t |-> "array", v |-> a]

IsNullish(x) == x.t \in {"undefined", "null"}

\* a ?? b
Coalesce(a, b) == IF IsNullish(a) THEN b ELSE a

\* a?.key : undefined on a nullish receiver, the property otherwise
OptChain(a, key) ==
  IF IsNullish(a) THEN Undefined
  ELSE IF a.t = "object" /\ key \in DOMAIN a.v THEN a.v[key]
  ELSE Undefined

\* ensureJson: primitives, arrays and objects pass, anything else is absent
ensureJson(value) ==
  IF IsNullish(value) THEN Undefined
  ELSE IF value.t \in {"string", "number", "boolean"} THEN value
  ELSE IF value.t = "array" THEN value
  ELSE IF value.t = "object" THEN value
  ELSE Undefined

mapSetToInsert(row, now) ==
  [ id |-> row.id,
    name |-> row.name,
    images |-> Coalesce(ensureJson(row.images), Null),
    legalities |-> Coalesce(ensureJson(row.legalities), Null),
    printed_total |-> IF row.printedTotal.t = "number" THEN row.printedTotal ELSE Null,
    total |-> IF row.total.t = "number" THEN row.total ELSE Null,
    release_date |-> Coalesce(row.releaseDate, Null),
    series |-> Coalesce(row.series, Null),
    raw |-> Coalesce(ensureJson(Obj(row)), Null),
    synced_at |-> now ]

\* mutant: a card without a set gets the set id null
mapCardToInsert_SetIdNull(row, now) ==
  LET setId == Coalesce(OptChain(row.set, "id"), Null)
  IN [ id |-> row.id,
       name |-> row.name,
       number |-> Coalesce(row.number, Null),
       images |-> Coalesce(ensureJson(row.images), Null),
       legalities |-> Coalesce(ensureJson(row.legalities), Null),
       rarity |-> Coalesce(row.rarity, Null),
       raw |-> Coalesce(ensureJson(Obj(row)), Null),
       set_id |-> setId,
       subtypes |-> Coalesce(row.subtypes, Null),
       supertype |-> Coalesce(row.supertype, Null),
       synced_at |-> now,
       tcgplayer_ref |-> Coalesce(ensureJson(row.tcgplayer), Null),
       cardmarket_ref |-> Coalesce(ensureJson(row.cardmarket), Null),
       types |-> Coalesce(row.types, Null) ]

mapCardToInsert(row, now) ==
  LET setId == Coalesce(OptChain(row.set, "id"), Str(""))
  IN [ id |-> row.id,
       name |-> row.name,
       number |-> Coalesce(row.number, Null),
       images |-> Coalesce(ensureJson(row.images), Null),
       legalities |-> Coalesce(ensureJson(row.legalities), Null),
       rarity |-> Coalesce(row.rarity, Null),
       raw |-> Coalesce(ensureJson(Obj(row)), Null),
       set_id |-> setId,
       subtypes |-> Coalesce(row.subtypes, Null),
       supertype |-> Coalesce(row.supertype, Null),
       synced_at |-> now,
       tcgplayer_ref |-> Coalesce(ensureJson(row.tcgplayer), Null),
       cardmarket_ref |-> Coalesce(ensureJson(row.cardmarket), Null),
       types |-> Coalesce(row.types, Null) ]


(***************************************************************************)
(* The upstream catalog: a mock that serves fixed pages.  Its content is   *)
(* decided the first time a collection or a page is read and is the same   *)
(* on every later read.                                                    *)
(***************************************************************************)
SetLens == {0, 2}
PageLens == {0, 1, DriverPageSize, DriverPageSize + 1}
\* HTTP statuses of the upstream: 200 is res.ok
FetchStatuses == {200, 429, 500}

SetId(k) == "set" \o ToString(k)
CardId(p, k) == "c" \o ToString(p) \o "-" \o ToString(k)
SetIds(n) == {SetId(k) : k \in 1..n}
PageIds(p, n) == {CardId(p, k) : k \in 1..n}

\* the upstream record of a set / of a card
SetApi(id) ==
  [ id |-> Str(id), name |-> Str("Set " \o id), images |-> Undefined,
    legalities |-> Undefined, printedTotal |-> Num(DriverPageSize),
    total |-> Undefined, releaseDate |-> Undefined, series |-> Str("Base") ]

CardApi(id) ==
  [ id |-> Str(id), name |-> Str("Card " \o id), number |-> Undefined,
    images |-> Undefined, legalities |-> Undefined, rarity |-> Str("Rare"),
    set |-> Obj([id |-> Str(SetId(1))]), subtypes |-> Undefined,
    supertype |-> Undefined, tcgplayer |-> Undefined, cardmarket |-> Undefined,
    types |-> Undefined ]

\* sets.map(mapSetToInsert) / data.map(mapCardToInsert): a batch, keyed by id
\* (the ids of one upstream response are distinct)
SetInserts(n, now) ==
  [id \in {Str(s) : s \in SetIds(n)} |-> mapSetToInsert(SetApi(id.v), now)]

\* mutant: the last record of a page is left out of the batch
CardInserts_DropLast(p, n, now) ==
  [id \in {Str(c) : c \in PageIds(p, n - 1)} |-> mapCardToInsert(CardApi(id.v), now)]

CardInserts(p, n, now) ==
  [id \in {Str(c) : c \in PageIds(p, n)} |-> mapCardToInsert(CardApi(id.v), now)]

(***************************************************************************)
(* The store: tables sets and cards keyed by id, and the sync_runs ledger. *)
(***************************************************************************)
NoError == ""
StoreFaults == {NoError, "connection lost"}
FkError == "insert or update on table cards violates foreign key constraint cards_set_id_fkey"

\* cards.set_id references sets.id
ForeignKeyError(rows, refs) ==
  IF \E id \in DOMAIN rows : rows[id].set_id \notin refs THEN FkError ELSE NoError

\* mutant: the batch replaces the table
UpsertRows_Truncate(table, rows) == rows

\* mutant: a row whose id exists keeps its values and takes the new synced_at
UpsertRows_Merge(table, rows) ==
  [id \in DOMAIN table \cup DOMAIN rows |->
     IF id \in DOMAIN rows /\ id \in DOMAIN table
       THEN [table[id] EXCEPT !.synced_at = rows[id].synced_at]
     ELSE IF id \in DOMAIN rows THEN rows[id] ELSE table[id]]

\* .upsert(values, {onConflict: "id", ignoreDuplicates: false}): a row whose id
\* exists is replaced whole, a new id is inserted
UpsertRows(table, rows) ==
  [id \in DOMAIN table \cup DOMAIN rows |->
     IF id \in DOMAIN rows THEN rows[id] ELSE table[id]]

\* mutant: a plain insert, which the store refuses for a key it already holds
UpsertSets_AsInsert(table, rows, fault) ==
  LET err == IF fault # NoError THEN fault
             ELSE IF DOMAIN rows \cap DOMAIN table # {}
               THEN "duplicate key value violates unique constraint"
             ELSE NoError
  IN [ error |-> err,
       table |-> IF err = NoError THEN UpsertRows(table, rows) ELSE table ]

\* supabase.from("sets").upsert(...): the store's answer {error} and the table
\* after it; `fault` is what the environment does to this call
UpsertSets(table, rows, fault) ==
  [ error |-> fault,
    table |-> IF fault = NoError THEN UpsertRows(table, rows) ELSE table ]

\* mutant: a refused write undoes the card rows written before it
UpsertCards_RollbackOnError(table, rows, setsTable, fault) ==
  LET err == IF fault # NoError THEN fault
             ELSE ForeignKeyError(rows, DOMAIN setsTable)
  IN [ error |-> err,
       table |-> IF err = NoError THEN UpsertRows(table, rows) ELSE [id \in {} |-> Null] ]

\* supabase.from("cards").upsert(...), under the foreign key to sets
UpsertCards(table, rows, setsTable, fault) ==
  LET err == IF fault # NoError THEN fault
             ELSE ForeignKeyError(rows, DOMAIN setsTable)
  IN [ error |-> err,
       table |-> IF err = NoError THEN UpsertRows(table, rows) ELSE table ]

EmptyTable == [id \in {} |-> Null]


(***************************************************************************)
(* State.                                                                  *)
(***************************************************************************)
VARIABLES
  env,       \* process.env: SYNC_TOKEN and the store credentials
  upSets,    \* {} while the upstream sets are unread, {n} once n sets were served
  upPages,   \* page number -> length of that page, for the pages read so far
  sets,      \* table sets: id -> row
  cards,     \* table cards: id -> row
  ledger,    \* table sync_runs, in insertion order
  clock,     \* the time; it advances when an invocation starts
  procs,     \* the callers of this behaviour
  inv,       \* caller -> its current invocation
  calls,     \* the calls made to the store writer of DbContext, oldest first
  mapped,    \* the upstream value handed to a mapper, and what the mapper gave
  settings,  \* the admin Settings page: its React state, its calls and timers
  binder     \* the inventory page: its filters and the state of its CardBinder

vars ==
  <<env, upSets, upPages, sets, cards, ledger, clock, procs, inv, calls, mapped,
    settings, binder>>

NoReq == [method |-> "", token |-> Undefined, body |-> Undefined]
NoResp == [kind |-> "none"]
\* new Response(JSON.stringify(body), {status}) / res.status(status).json(body)
Http(status, body) == [kind |-> "http", status |-> status, body |-> body]
\* a promise that resolved with value / rejected with an Error(message)
Returned(value) == [kind |-> "return", value |-> value]
Threw(message) == [kind |-> "throw", error |-> message]

\* no mapper call is made on its own
NotMapped == [fn |-> "none", arg |-> Undefined, out |-> NoResp]

\* the Settings page is not on the screen and has made no call
NoPage ==
  [ inst |-> 0, syncing |-> FALSE, lastSync |-> Null, syncError |-> Null,
    syncResult |-> Null, progress |-> [stage |-> "idle", isProcessing |-> FALSE],
    \* inst: the mounted instance (0: none); mounts: the instances so far;
    \* runs: the calls of handleSyncNow; ghost: fired counts the timer callbacks
    \* run, endedBy is the call that set the stage to complete or error
    mounts |-> 0, runs |-> <<>>, fired |-> 0, endedBy |-> 0 ]

\* the inventory page is not on the screen
NoBinder ==
  [ shown |-> FALSE,
    filters |-> [search |-> Undefined, condition |-> Undefined, language |-> Undefined,
                 is_foil |-> Undefined],
    filteredCards |-> <<>>, currentPage |-> 0, flipDirection |-> "right" ]

Idle ==
  [ kind |-> "none", pc |-> "idle", id |-> 0, run |-> 0, req |-> NoReq,
    step |-> Undefined, page |-> 0, pageSize |-> 0,
    nSets |-> 0, dataLen |-> 0, cardsUpserted |-> 0, started |-> 0,
    err |-> NoError, resp |-> NoResp,
    \* ghost: the cursors, fetches, upserts and ledger inserts of the logical run
    trail |-> <<>>, fetches |-> <<>>, writes |-> <<>>, logs |-> <<>> ]

\* the {} a missing or unparsable body is replaced by: every property absent
EmptyBody == Obj([step |-> Undefined, page |-> Undefined, pageSize |-> Undefined])

Methods == {"POST", "OPTIONS", "GET"}
Tokens == {Undefined, Str("s3cret"), Str("wrong")}
Secrets == {Undefined, Str(""), Str("s3cret")}
StepValues == {Undefined, Str("sets"), Str("cards"), Str("bogus")}
PageValues == {Undefined, Str("2"), Num(0)} \cup {Num(p) : p \in 1..MaxPages + 1}
PageSizeValues == {Undefined, Num(0), Num(1), Num(DefaultPageSize)}
\* no body (Undefined), the JSON null, or an object
Bodies ==
  {Undefined, Null} \cup
  {Obj([step |-> s, page |-> p, pageSize |-> z]) :
     s \in StepValues, p \in PageValues, z \in PageSizeValues}
\* every method and token without a body; every body under a POST with the token
Requests ==
  {[method |-> m, token |-> t, body |-> Undefined] : m \in Methods, t \in Tokens} \cup
  {[method |-> "POST", token |-> Str("s3cret"), body |-> b] : b \in Bodies}

Init ==
  /\ env \in [SYNC_TOKEN : Secrets, hasStoreCreds : BOOLEAN]
  /\ upSets = {}
  /\ upPages = [p \in {} |-> 0]
  /\ sets = EmptyTable
  /\ cards = EmptyTable
  /\ ledger = <<>>
  /\ clock = 0
  /\ procs = {1}
  /\ inv = [i \in procs |-> Idle]
  /\ calls = <<>>
  /\ mapped = NotMapped
  /\ settings = NoPage
  /\ binder = NoBinder

(***************************************************************************)
(* What the upstream answers.                                              *)
(***************************************************************************)
\* the lengths the sets collection / page p may turn out to have
SetsServed == IF upSets = {} THEN SetLens ELSE upSets
PageServed(p) ==
  IF p \in DOMAIN upPages THEN {upPages[p]}
  ELSE IF p > MaxPages THEN {0}
  ELSE PageLens
DecidePage(p, n) ==
  IF p \in DOMAIN upPages THEN upPages
  ELSE [q \in DOMAIN upPages \cup {p} |-> IF q = p THEN n ELSE upPages[q]]

FetchSetsError(status) == "Failed to fetch sets: " \o ToString(status)
FetchCardsError(page, status) ==
  "Failed to fetch cards page " \o ToString(page) \o ": " \o ToString(status)

\* ghost records of what the invocations of a logical run did
FetchRec(v, what, page, pageSize, status, len) ==
  [ inv |-> v.id, what |-> what, page |-> page, pageSize |-> pageSize,
    status |-> status, len |-> len ]
WriteRec(v, table, page, n, error) ==
  [inv |-> v.id, table |-> table, page |-> page, n |-> n, error |-> error]
LogRec(v, ok, accepted) == [inv |-> v.id, ok |-> ok, accepted |-> accepted]


(***************************************************************************)
(* The sync_runs ledger.  inv and run are ghost fields: the invocation and *)
(* the logical run that wrote the record.                                  *)
(***************************************************************************)
LedgerRow(job, ok, notes, startedAt, finishedAt, v) ==
  [ job |-> job, ok |-> ok, notes |-> notes, started_at |-> startedAt,
    finished_at |-> finishedAt, inv |-> v.id, run |-> v.run ]

\* mutant: an accepted insert stores the record twice
LedgerInsert_Twice(table, row, accepted) ==
  IF accepted THEN Append(Append(table, row), row) ELSE table

\* await supabase.from("sync_runs").insert(row): the answer is not looked at;
\* a refused insert leaves the table as it was
LedgerInsert(table, row, accepted) == IF accepted THEN Append(table, row) ELSE table

\* mutant: a refused insert of a success record is thrown into the catch block
Logged_Fatal(v, rec, resp) ==
  IF rec.ok /\ ~rec.accepted
    THEN [v EXCEPT !.logs = Append(@, rec), !.err = "ledger insert failed",
                   !.pc = "logError"]
  ELSE [v EXCEPT !.logs = Append(@, rec), !.resp = resp, !.pc = "done"]

\* the invocation after its ledger insert: whatever the store answered, the
\* handler goes on to answer resp
Logged(v, rec, resp) ==
  [v EXCEPT !.logs = Append(@, rec), !.resp = resp, !.pc = "done"]

(***************************************************************************)
(* The shared-secret gate of the endpoints.                                *)
(***************************************************************************)
Truthy(x) == x.t = "string" /\ x.v # ""

\* mutant: a request without the header passes the gate
Unauthorized_MissingPasses(expectedToken, providedToken) ==
  /\ Truthy(expectedToken)
  /\ Truthy(providedToken) /\ providedToken # expectedToken

\* expectedToken && expectedToken.length > 0 &&
\*   (!providedToken || providedToken !== expectedToken)
Unauthorized(expectedToken, providedToken) ==
  /\ Truthy(expectedToken)
  /\ ~Truthy(providedToken) \/ providedToken # expectedToken

MissingCredsError == "Missing SUPABASE_URL or SUPABASE_SERVICE_ROLE_KEY env vars"
NullBodyError == "Cannot read properties of null (reading 'step')"

\* mutant: the shared secret is asked of every method, OPTIONS included
Gate_TokenFirst(v, go) ==
  IF Unauthorized(env.SYNC_TOKEN, v.req.token)
    THEN [v EXCEPT !.pc = "done", !.resp = Http(401, [error |-> "Unauthorized"])]
  ELSE IF v.req.method = "OPTIONS"
    THEN [v EXCEPT !.pc = "done", !.resp = [kind |-> "http", status |-> 204, body |-> Null]]
  ELSE IF v.req.method # "POST"
    THEN [v EXCEPT !.pc = "done", !.resp = Http(405, [error |-> "Method Not Allowed"])]
  ELSE IF ~env.hasStoreCreds
    THEN [v EXCEPT !.pc = "done", !.resp = Threw(MissingCredsError)]
  ELSE [v EXCEPT !.pc = go]

\* what every endpoint does before its try block: the invocation v, entered
\* with its request, either answered at once or at pc `go`
Gate(v, go) ==
  IF v.req.method = "OPTIONS"
    THEN [v EXCEPT !.pc = "done", !.resp = [kind |-> "http", status |-> 204, body |-> Null]]
  ELSE IF v.req.method # "POST"
    THEN [v EXCEPT !.pc = "done", !.resp = Http(405, [error |-> "Method Not Allowed"])]
  ELSE IF Unauthorized(env.SYNC_TOKEN, v.req.token)
    THEN [v EXCEPT !.pc = "done", !.resp = Http(401, [error |-> "Unauthorized"])]
  ELSE IF ~env.hasStoreCreds
    THEN [v EXCEPT !.pc = "done", !.resp = Threw(MissingCredsError)]
  ELSE [v EXCEPT !.pc = go]

(***************************************************************************)
(* The continuation-mode endpoint: handler of api/sync.ts.                 *)
(***************************************************************************)
\* mutant: a request without a step runs the cards step
CursorStep_DefaultCards(body) == Coalesce(body.v.step, Str("cards"))

\* body.step ?? "sets"
CursorStep(body) == Coalesce(body.v.step, Str("sets"))
\* typeof body.page === "number" && body.page > 0 ? body.page : 1
CursorPage(body) ==
  IF body.v.page.t = "number" /\ body.v.page.v > 0 THEN body.v.page.v ELSE DefaultPage
CursorPageSize(body) ==
  IF body.v.pageSize.t = "number" /\ body.v.pageSize.v > 0
    THEN body.v.pageSize.v ELSE DefaultPageSize

\* the endpoint from its entry to its first await of the upstream
handler_Enter(v) ==
  LET g == Gate(v, "body")
      body == IF g.req.body = Undefined THEN EmptyBody ELSE g.req.body
  IN IF g.pc # "body" THEN g
     ELSE IF body = Null THEN [g EXCEPT !.pc = "logError", !.err = NullBodyError]
     ELSE [g EXCEPT !.trail = Append(@, [inv |-> g.id, step |-> CursorStep(body),
                                         page |-> CursorPage(body),
                                         pageSize |-> CursorPageSize(body)]),
                    !.step = CursorStep(body),
                    !.page = CursorPage(body),
                    !.pageSize = CursorPageSize(body),
                    !.pc = IF CursorStep(body) = Str("sets")
                             THEN "fetchSets" ELSE "fetchCards"]

NewInvocation(kind, req, run) ==
  [Idle EXCEPT !.kind = kind, !.id = clock + 1, !.run = run, !.req = req,
               !.started = clock + 1]

handler_Begin(i, req) ==
  /\ inv[i].pc = "idle"
  /\ clock' = clock + 1
  /\ inv' = [inv EXCEPT ![i] = handler_Enter(NewInvocation("endpoint", req, clock + 1))]
  /\ UNCHANGED <<env, upSets, upPages, sets, cards, ledger, procs, calls, mapped, settings, binder>>

\* const sets = await fetchAllSets(); const setInserts = sets.map(mapSetToInsert)
handler_FetchSets(i) ==
  /\ inv[i].kind = "endpoint" /\ inv[i].pc = "fetchSets"
  /\ \E status \in FetchStatuses, n \in SetsServed :
       LET rec == FetchRec(inv[i], "sets", 0, DefaultPageSize, status, IF status = 200 THEN n ELSE 0)
           v == [inv[i] EXCEPT !.fetches = Append(@, rec)]
       IN IF status = 200
            THEN /\ upSets' = {n}
                 /\ inv' = [inv EXCEPT ![i] =
                      [v EXCEPT !.nSets = n,
                                !.pc = IF n > 0 THEN "upsertSets" ELSE "logSets"]]
            ELSE /\ upSets' = upSets
                 /\ inv' = [inv EXCEPT ![i] =
                      [v EXCEPT !.err = FetchSetsError(status), !.pc = "logError"]]
  /\ UNCHANGED <<env, upPages, sets, cards, ledger, clock, procs, calls, mapped, settings, binder>>

\* if (setInserts.length > 0) { upsert; if (error) throw new Error(error.message) }
handler_UpsertSets(i) ==
  /\ inv[i].kind = "endpoint" /\ inv[i].pc = "upsertSets"
  /\ \E fault \in StoreFaults :
       LET r == UpsertSets(sets, SetInserts(inv[i].nSets, inv[i].started), fault)
           v == [inv[i] EXCEPT !.writes = Append(@, WriteRec(inv[i], "sets", 0, inv[i].nSets, r.error))]
       IN /\ sets' = r.table
          /\ inv' = [inv EXCEPT ![i] =
               IF r.error = NoError THEN [v EXCEPT !.pc = "logSets"]
               ELSE [v EXCEPT !.err = r.error, !.pc = "logError"]]
  /\ UNCHANGED <<env, upSets, upPages, cards, ledger, clock, procs, calls, mapped,
                 settings, binder>>

\* mutant: the next cursor keeps the page of the request
handler_SetsBody_KeepsPage(v) ==
  [ step |-> "sets", setsUpserted |-> v.nSets,
    next |-> [step |-> "cards", page |-> v.page, pageSize |-> v.pageSize] ]

\* {step: "sets", setsUpserted, next: {step: "cards", page: 1, pageSize}}
handler_SetsBody(v) ==
  [ step |-> "sets", setsUpserted |-> v.nSets,
    next |-> [step |-> "cards", page |-> DefaultPage, pageSize |-> v.pageSize] ]

\* the ok=true record of the sets step, then the 200 answer with the next cursor
handler_LogSets(i) ==
  /\ inv[i].kind = "endpoint" /\ inv[i].pc = "logSets"
  /\ \E accepted \in BOOLEAN :
       /\ ledger' = LedgerInsert(ledger,
            LedgerRow("seed_cards", TRUE, [sets |-> inv[i].nSets, step |-> "sets"],
                      clock, clock, inv[i]), accepted)
       /\ inv' = [inv EXCEPT ![i] =
            Logged(inv[i], LogRec(inv[i], TRUE, accepted), Http(200, handler_SetsBody(inv[i])))]
  /\ UNCHANGED <<env, upSets, upPages, sets, cards, clock, procs, calls, mapped, settings, binder>>

\* mutant: any non-empty page announces a next page
HasMore_NonEmpty(len, pageSize) == len > 0

\* const hasMore = data.length === pageSize
HasMore(len, pageSize) == len = pageSize

\* mutant: the answer is labelled with the step of the request
handler_CardsBody_EchoStep(v, len) ==
  [ step |-> v.step.v, processed |-> len, page |-> v.page, pageSize |-> v.pageSize,
    hasMore |-> HasMore(len, v.pageSize),
    nextPage |-> IF HasMore(len, v.pageSize) THEN Num(v.page + 1) ELSE Null ]

\* {step: "cards", processed, page, pageSize, hasMore, nextPage}
handler_CardsBody(v, len) ==
  [ step |-> "cards", processed |-> len, page |-> v.page, pageSize |-> v.pageSize,
    hasMore |-> HasMore(len, v.pageSize),
    nextPage |-> IF HasMore(len, v.pageSize) THEN Num(v.page + 1) ELSE Null ]

\* const data = await fetchCardsByPage(page, pageSize); an empty page is
\* answered without a write
handler_FetchCards(i) ==
  /\ inv[i].kind = "endpoint" /\ inv[i].pc = "fetchCards"
  /\ \E status \in FetchStatuses, n \in PageServed(inv[i].page) :
       LET rec == FetchRec(inv[i], "cards", inv[i].page, inv[i].pageSize, status,
                           IF status = 200 THEN n ELSE 0)
           v == [inv[i] EXCEPT !.fetches = Append(@, rec)]
       IN IF status = 200
            THEN /\ upPages' = DecidePage(inv[i].page, n)
                 /\ inv' = [inv EXCEPT ![i] =
                      IF n > 0 THEN [v EXCEPT !.dataLen = n, !.pc = "upsertCards"]
                      ELSE [v EXCEPT !.dataLen = n, !.pc = "done",
                                     !.resp = Http(200, handler_CardsBody(v, n))]]
            ELSE /\ upPages' = upPages
                 /\ inv' = [inv EXCEPT ![i] =
                      [v EXCEPT !.err = FetchCardsError(inv[i].page, status),
                                !.pc = "logError"]]
  /\ UNCHANGED <<env, upSets, sets, cards, ledger, clock, procs, calls, mapped, settings, binder>>

\* the upsert of the page, then the 200 answer with hasMore and nextPage
handler_UpsertCards(i) ==
  /\ inv[i].kind = "endpoint" /\ inv[i].pc = "upsertCards"
  /\ \E fault \in StoreFaults :
       LET r == UpsertCards(cards, CardInserts(inv[i].page, inv[i].dataLen, inv[i].started),
                            sets, fault)
           v == [inv[i] EXCEPT !.writes =
                   Append(@, WriteRec(inv[i], "cards", inv[i].page, inv[i].dataLen, r.error))]
       IN /\ cards' = r.table
          /\ inv' = [inv EXCEPT ![i] =
               IF r.error = NoError
                 THEN [v EXCEPT !.pc = "done",
                                !.resp = Http(200, handler_CardsBody(v, v.dataLen))]
               ELSE [v EXCEPT !.err = r.error, !.pc = "logError"]]
  /\ UNCHANGED <<env, upSets, upPages, sets, ledger, clock, procs, calls, mapped, settings, binder>>

\* mutant: the status of the error answer is left out
handler_ErrorResponse_NoStatus(message) == Http(200, [error |-> message])

\* new Response(JSON.stringify({error: message}), {status: 500})
handler_ErrorResponse(message) == Http(500, [error |-> message])

\* catch (e): the ok=false record, then the 500 answer with the message
handler_LogError(i) ==
  /\ inv[i].kind = "endpoint" /\ inv[i].pc = "logError"
  /\ \E accepted \in BOOLEAN :
       /\ ledger' = LedgerInsert(ledger,
            LedgerRow("seed_cards", FALSE, [error |-> inv[i].err], clock, clock, inv[i]),
            accepted)
       /\ inv' = [inv EXCEPT ![i] =
            Logged(inv[i], LogRec(inv[i], FALSE, accepted), handler_ErrorResponse(inv[i].err))]
  /\ UNCHANGED <<env, upSets, upPages, sets, cards, clock, procs, calls, mapped, settings, binder>>

\* the caller of continuation mode: it submits the cursor the last answer gave
NextCursor(resp) ==
  IF "next" \in DOMAIN resp.body
    THEN Obj([step |-> Str(resp.body.next.step), page |-> Num(resp.body.next.page),
              pageSize |-> Num(resp.body.next.pageSize)])
  ELSE Obj([step |-> Str("cards"), page |-> resp.body.nextPage,
            pageSize |-> Num(resp.body.pageSize)])

MoreToDo(resp) ==
  /\ resp.kind = "http" /\ resp.status = 200
  /\ \/ "next" \in DOMAIN resp.body
     \/ "hasMore" \in DOMAIN resp.body /\ resp.body.hasMore

handler_Resubmit(i) ==
  /\ inv[i].kind = "endpoint" /\ inv[i].pc = "done"
  /\ MoreToDo(inv[i].resp)
  /\ clock' = clock + 1
  /\ inv' = [inv EXCEPT ![i] =
       handler_Enter(
         [NewInvocation("endpoint", [inv[i].req EXCEPT !.body = NextCursor(inv[i].resp)],
                        inv[i].run)
            EXCEPT !.trail = inv[i].trail, !.fetches = inv[i].fetches,
                   !.writes = inv[i].writes, !.logs = inv[i].logs])]
  /\ UNCHANGED <<env, upSets, upPages, sets, cards, ledger, procs, calls, mapped, settings, binder>>

(***************************************************************************)
(* The driver-mode endpoint: handler of the retained driver draft.  It     *)
(* never reads the request body.                                           *)
(***************************************************************************)
\* mutant: the page is not advanced
NextPage_Same(page) == page

\* page += 1
NextPage(page) == page + 1
\* mutant: the loop also stops after a full page
LastPage_OffByOne(len, pageSize) == len <= pageSize
\* mutant: no page ends the loop
LastPage_Never(len, pageSize) == FALSE

\* if (data.length < pageSize) break
LastPage(len, pageSize) == len < pageSize

driver_Begin(i, req) ==
  /\ inv[i].pc = "idle"
  /\ clock' = clock + 1
  /\ inv' = [inv EXCEPT ![i] = Gate(NewInvocation("driver", req, clock + 1), "fetchSets")]
  /\ UNCHANGED <<env, upSets, upPages, sets, cards, ledger, procs, calls, mapped, settings, binder>>

\* const sets = await fetchAllSets(); then `let page = 1` once the sets are in
driver_FetchSets(i) ==
  /\ inv[i].kind = "driver" /\ inv[i].pc = "fetchSets"
  /\ \E status \in FetchStatuses, n \in SetsServed :
       LET rec == FetchRec(inv[i], "sets", 0, DefaultPageSize, status, IF status = 200 THEN n ELSE 0)
           v == [inv[i] EXCEPT !.fetches = Append(@, rec)]
       IN IF status = 200
            THEN /\ upSets' = {n}
                 /\ inv' = [inv EXCEPT ![i] =
                      IF n > 0 THEN [v EXCEPT !.nSets = n, !.pc = "upsertSets"]
                      ELSE [v EXCEPT !.nSets = n, !.page = DefaultPage,
                                     !.pageSize = DriverPageSize, !.pc = "fetchCards"]]
            ELSE /\ upSets' = upSets
                 /\ inv' = [inv EXCEPT ![i] =
                      [v EXCEPT !.err = FetchSetsError(status), !.pc = "logError"]]
  /\ UNCHANGED <<env, upPages, sets, cards, ledger, clock, procs, calls, mapped, settings, binder>>

driver_UpsertSets(i) ==
  /\ inv[i].kind = "driver" /\ inv[i].pc = "upsertSets"
  /\ \E fault \in StoreFaults :
       LET r == UpsertSets(sets, SetInserts(inv[i].nSets, inv[i].started), fault)
           v == [inv[i] EXCEPT !.writes = Append(@, WriteRec(inv[i], "sets", 0, inv[i].nSets, r.error))]
       IN /\ sets' = r.table
          /\ inv' = [inv EXCEPT ![i] =
               IF r.error = NoError
                 THEN [v EXCEPT !.page = DefaultPage, !.pageSize = DriverPageSize,
                                !.pc = "fetchCards"]
               ELSE [v EXCEPT !.err = r.error, !.pc = "logError"]]
  /\ UNCHANGED <<env, upSets, upPages, cards, ledger, clock, procs, calls, mapped,
                 settings, binder>>

\* const data = await fetchCardsByPage(page, pageSize); if (data.length === 0) break
driver_FetchCards(i) ==
  /\ inv[i].kind = "driver" /\ inv[i].pc = "fetchCards"
  /\ \E status \in FetchStatuses, n \in PageServed(inv[i].page) :
       LET rec == FetchRec(inv[i], "cards", inv[i].page, inv[i].pageSize, status,
                           IF status = 200 THEN n ELSE 0)
           v == [inv[i] EXCEPT !.fetches = Append(@, rec)]
       IN IF status = 200
            THEN /\ upPages' = DecidePage(inv[i].page, n)
                 /\ inv' = [inv EXCEPT ![i] =
                      [v EXCEPT !.dataLen = n,
                                !.pc = IF n = 0 THEN "logOk" ELSE "upsertCards"]]
            ELSE /\ upPages' = upPages
                 /\ inv' = [inv EXCEPT ![i] =
                      [v EXCEPT !.err = FetchCardsError(inv[i].page, status),
                                !.pc = "logError"]]
  /\ UNCHANGED <<env, upSets, sets, cards, ledger, clock, procs, calls, mapped, settings, binder>>

\* upsert; cardsUpserted += upserts.length; break on a short page, else page += 1
driver_UpsertCards(i) ==
  /\ inv[i].kind = "driver" /\ inv[i].pc = "upsertCards"
  /\ \E fault \in StoreFaults :
       LET r == UpsertCards(cards, CardInserts(inv[i].page, inv[i].dataLen, inv[i].started),
                            sets, fault)
           v == [inv[i] EXCEPT !.writes =
                   Append(@, WriteRec(inv[i], "cards", inv[i].page, inv[i].dataLen, r.error))]
       IN /\ cards' = r.table
          /\ inv' = [inv EXCEPT ![i] =
               IF r.error # NoError THEN [v EXCEPT !.err = r.error, !.pc = "logError"]
               ELSE IF LastPage(v.dataLen, v.pageSize)
                 THEN [v EXCEPT !.cardsUpserted = @ + v.dataLen, !.pc = "logOk"]
               ELSE [v EXCEPT !.cardsUpserted = @ + v.dataLen,
                              !.page = NextPage(@), !.pc = "fetchCards"]]
  /\ UNCHANGED <<env, upSets, upPages, sets, ledger, clock, procs, calls, mapped, settings, binder>>

\* mutant: the sets count is reported for the cards too
SyncResult_SetsTwice(v) == [setsUpserted |-> v.nSets, cardsUpserted |-> v.nSets]

SyncResult(v) == [setsUpserted |-> v.nSets, cardsUpserted |-> v.cardsUpserted]

\* the ok=true record with the counts, then the 200 answer with the counts
driver_LogOk(i) ==
  /\ inv[i].kind = "driver" /\ inv[i].pc = "logOk"
  /\ \E accepted \in BOOLEAN :
       /\ ledger' = LedgerInsert(ledger,
            LedgerRow("seed_cards", TRUE,
                      [sets |-> inv[i].nSets, cards |-> inv[i].cardsUpserted],
                      clock, clock, inv[i]), accepted)
       /\ inv' = [inv EXCEPT ![i] =
            Logged(inv[i], LogRec(inv[i], TRUE, accepted), Http(200, SyncResult(inv[i])))]
  /\ UNCHANGED <<env, upSets, upPages, sets, cards, clock, procs, calls, mapped, settings, binder>>

driver_LogError(i) ==
  /\ inv[i].kind = "driver" /\ inv[i].pc = "logError"
  /\ \E accepted \in BOOLEAN :
       /\ ledger' = LedgerInsert(ledger,
            LedgerRow("seed_cards", FALSE, [error |-> inv[i].err], clock, clock, inv[i]),
            accepted)
       /\ inv' = [inv EXCEPT ![i] =
            Logged(inv[i], LogRec(inv[i], FALSE, accepted), Http(500, [error |-> inv[i].err]))]
  /\ UNCHANGED <<env, upSets, upPages, sets, cards, clock, procs, calls, mapped, settings, binder>>

(***************************************************************************)
(* The in-browser driver: syncPokemonTcg of services/syncService.ts.       *)
(***************************************************************************)
ClientError == "supabaseUrl is required."
NoRequest == [method |-> "call", token |-> Undefined, body |-> Undefined]

\* mutant: the run starts at the card pages and never reads the sets
syncPokemonTcg_Begin_CardsFirst(i) ==
  /\ inv[i].pc = "idle"
  /\ clock' = clock + 1
  /\ inv' = [inv EXCEPT ![i] =
       LET v == NewInvocation("service", NoRequest, clock + 1)
       IN IF env.hasStoreCreds
            THEN [v EXCEPT !.page = DefaultPage, !.pageSize = DriverPageSize,
                           !.pc = "fetchCards"]
          ELSE [v EXCEPT !.pc = "done", !.resp = Threw(ClientError)]]
  /\ UNCHANGED <<env, upSets, upPages, sets, cards, ledger, procs, calls, mapped, settings, binder>>

\* const supabase = getSupabaseClient(); const started = new Date().toISOString()
syncPokemonTcg_Begin(i) ==
  /\ inv[i].pc = "idle"
  /\ clock' = clock + 1
  /\ inv' = [inv EXCEPT ![i] =
       LET v == NewInvocation("service", NoRequest, clock + 1)
       IN IF env.hasStoreCreds THEN [v EXCEPT !.pc = "fetchSets"]
          ELSE [v EXCEPT !.pc = "done", !.resp = Threw(ClientError)]]
  /\ UNCHANGED <<env, upSets, upPages, sets, cards, ledger, procs, calls, mapped, settings, binder>>

syncPokemonTcg_FetchSets(i) ==
  /\ inv[i].kind = "service" /\ inv[i].pc = "fetchSets"
  /\ \E status \in FetchStatuses, n \in SetsServed :
       LET rec == FetchRec(inv[i], "sets", 0, DefaultPageSize, status, IF status = 200 THEN n ELSE 0)
           v == [inv[i] EXCEPT !.fetches = Append(@, rec)]
       IN IF status = 200
            THEN /\ upSets' = {n}
                 /\ inv' = [inv EXCEPT ![i] =
                      IF n > 0 THEN [v EXCEPT !.nSets = n, !.pc = "upsertSets"]
                      ELSE [v EXCEPT !.nSets = n, !.page = DefaultPage,
                                     !.pageSize = DriverPageSize, !.pc = "fetchCards"]]
            ELSE /\ upSets' = upSets
                 /\ inv' = [inv EXCEPT ![i] =
                      [v EXCEPT !.err = FetchSetsError(status), !.pc = "logError"]]
  /\ UNCHANGED <<env, upPages, sets, cards, ledger, clock, procs, calls, mapped, settings, binder>>

syncPokemonTcg_UpsertSets(i) ==
  /\ inv[i].kind = "service" /\ inv[i].pc = "upsertSets"
  /\ \E fault \in StoreFaults :
       LET r == UpsertSets(sets, SetInserts(inv[i].nSets, inv[i].started), fault)
           v == [inv[i] EXCEPT !.writes = Append(@, WriteRec(inv[i], "sets", 0, inv[i].nSets, r.error))]
       IN /\ sets' = r.table
          /\ inv' = [inv EXCEPT ![i] =
               IF r.error = NoError
                 THEN [v EXCEPT !.page = DefaultPage, !.pageSize = DriverPageSize,
                                !.pc = "fetchCards"]
               ELSE [v EXCEPT !.err = r.error, !.pc = "logError"]]
  /\ UNCHANGED <<env, upSets, upPages, cards, ledger, clock, procs, calls, mapped,
                 settings, binder>>

\* mutant: the next page is requested while the page just read is still to be
\* written
syncPokemonTcg_FetchCards_Prefetch(i) ==
  /\ inv[i].kind = "service" /\ inv[i].pc = "fetchCards"
  /\ \E status \in FetchStatuses, n \in PageServed(inv[i].page) :
       LET rec == FetchRec(inv[i], "cards", inv[i].page, inv[i].pageSize, status,
                           IF status = 200 THEN n ELSE 0)
           v == [inv[i] EXCEPT !.fetches = Append(@, rec)]
       IN IF status = 200
            THEN /\ upPages' = DecidePage(inv[i].page, n)
                 /\ inv' = [inv EXCEPT ![i] =
                      IF LastPage(n, v.pageSize)
                        THEN [v EXCEPT !.dataLen = n,
                                       !.pc = IF n > 0 THEN "upsertCards" ELSE "logOk"]
                      ELSE [v EXCEPT !.dataLen = n, !.page = NextPage(@)]]
            ELSE /\ upPages' = upPages
                 /\ inv' = [inv EXCEPT ![i] =
                      [v EXCEPT !.err = FetchCardsError(inv[i].page, status),
                                !.pc = "logError"]]
  /\ UNCHANGED <<env, upSets, sets, cards, ledger, clock, procs, calls, mapped, settings, binder>>

\* const chunk = await fetchCardsByPage(page, pageSize); an empty chunk is not
\* written, and being shorter than pageSize it ends the loop
syncPokemonTcg_FetchCards(i) ==
  /\ inv[i].kind = "service" /\ inv[i].pc = "fetchCards"
  /\ \E status \in FetchStatuses, n \in PageServed(inv[i].page) :
       LET rec == FetchRec(inv[i], "cards", inv[i].page, inv[i].pageSize, status,
                           IF status = 200 THEN n ELSE 0)
           v == [inv[i] EXCEPT !.fetches = Append(@, rec)]
       IN IF status = 200
            THEN /\ upPages' = DecidePage(inv[i].page, n)
                 /\ inv' = [inv EXCEPT ![i] =
                      IF n > 0 THEN [v EXCEPT !.dataLen = n, !.pc = "upsertCards"]
                      ELSE IF LastPage(n, v.pageSize) THEN [v EXCEPT !.dataLen = n, !.pc = "logOk"]
                      ELSE [v EXCEPT !.dataLen = n, !.page = NextPage(@)]]
            ELSE /\ upPages' = upPages
                 /\ inv' = [inv EXCEPT ![i] =
                      [v EXCEPT !.err = FetchCardsError(inv[i].page, status),
                                !.pc = "logError"]]
  /\ UNCHANGED <<env, upSets, sets, cards, ledger, clock, procs, calls, mapped, settings, binder>>

syncPokemonTcg_UpsertCards(i) ==
  /\ inv[i].kind = "service" /\ inv[i].pc = "upsertCards"
  /\ \E fault \in StoreFaults :
       LET r == UpsertCards(cards, CardInserts(inv[i].page, inv[i].dataLen, inv[i].started),
                            sets, fault)
           v == [inv[i] EXCEPT !.writes =
                   Append(@, WriteRec(inv[i], "cards", inv[i].page, inv[i].dataLen, r.error))]
       IN /\ cards' = r.table
          /\ inv' = [inv EXCEPT ![i] =
               IF r.error # NoError THEN [v EXCEPT !.err = r.error, !.pc = "logError"]
               ELSE IF LastPage(v.dataLen, v.pageSize)
                 THEN [v EXCEPT !.cardsUpserted = @ + v.dataLen, !.pc = "logOk"]
               ELSE [v EXCEPT !.cardsUpserted = @ + v.dataLen,
                              !.page = NextPage(@), !.pc = "fetchCards"]]
  /\ UNCHANGED <<env, upSets, upPages, sets, ledger, clock, procs, calls, mapped, settings, binder>>

\* mutant: the run is recorded as a success whatever happened
logSyncRun_AlwaysOk(startedAt, ok, notes, v, accepted) ==
  LedgerInsert(ledger, LedgerRow("pokemon_tcg_sync", TRUE, notes, startedAt, clock, v), accepted)

\* logSyncRun(startedAt, ok, notes)
logSyncRun(startedAt, ok, notes, v, accepted) ==
  LedgerInsert(ledger, LedgerRow("pokemon_tcg_sync", ok, notes, startedAt, clock, v), accepted)

\* await logSyncRun(started, true, {sets, cards}); return {setsUpserted, cardsUpserted}
syncPokemonTcg_LogOk(i) ==
  /\ inv[i].kind = "service" /\ inv[i].pc = "logOk"
  /\ \E accepted \in BOOLEAN :
       /\ ledger' = logSyncRun(inv[i].started, TRUE,
            [sets |-> inv[i].nSets, cards |-> inv[i].cardsUpserted], inv[i], accepted)
       /\ inv' = [inv EXCEPT ![i] =
            Logged(inv[i], LogRec(inv[i], TRUE, accepted), Returned(SyncResult(inv[i])))]
  /\ UNCHANGED <<env, upSets, upPages, sets, cards, clock, procs, calls, mapped, settings, binder>>

\* catch (e) { await logSyncRun(started, false, {error: message}); throw e }
syncPokemonTcg_LogError(i) ==
  /\ inv[i].kind = "service" /\ inv[i].pc = "logError"
  /\ \E accepted \in BOOLEAN :
       /\ ledger' = logSyncRun(inv[i].started, FALSE, [error |-> inv[i].err], inv[i], accepted)
       /\ inv' = [inv EXCEPT ![i] =
            Logged(inv[i], LogRec(inv[i], FALSE, accepted), Threw(inv[i].err))]
  /\ UNCHANGED <<env, upSets, upPages, sets, cards, clock, procs, calls, mapped, settings, binder>>

\* the requests a driver-mode endpoint is sent: it reads the method and the token
DriverRequests ==
  {[method |-> m, token |-> t, body |-> b] :
     m \in Methods, t \in Tokens, b \in {Undefined, Obj([step |-> Str("cards"),
                                          page |-> Num(MaxPages), pageSize |-> Num(1)])}}

Next ==
  \/ \E i \in procs, req \in Requests : handler_Begin(i, req)
  \/ \E i \in procs : handler_FetchSets(i)
  \/ \E i \in procs : handler_UpsertSets(i)
  \/ \E i \in procs : handler_LogSets(i)
  \/ \E i \in procs : handler_FetchCards(i)
  \/ \E i \in procs : handler_UpsertCards(i)
  \/ \E i \in procs : handler_LogError(i)
  \/ \E i \in procs : handler_Resubmit(i)
  \/ \E i \in procs, req \in DriverRequests : driver_Begin(i, req)
  \/ \E i \in procs : driver_FetchSets(i)
  \/ \E i \in procs : driver_UpsertSets(i)
  \/ \E i \in procs : driver_FetchCards(i)
  \/ \E i \in procs : driver_UpsertCards(i)
  \/ \E i \in procs : driver_LogOk(i)
  \/ \E i \in procs : driver_LogError(i)
  \/ \E i \in procs : syncPokemonTcg_Begin(i)
  \/ \E i \in procs : syncPokemonTcg_FetchSets(i)
  \/ \E i \in procs : syncPokemonTcg_UpsertSets(i)
  \/ \E i \in procs : syncPokemonTcg_FetchCards(i)
  \/ \E i \in procs : syncPokemonTcg_UpsertCards(i)
  \/ \E i \in procs : syncPokemonTcg_LogOk(i)
  \/ \E i \in procs : syncPokemonTcg_LogError(i)

Spec == Init /\ [][Next]_vars


(***************************************************************************)
(* The store writer of DbContext: upsertSets and upsertCards.              *)
(***************************************************************************)
\* the batches the store writer is handed: a few mapped rows of the upstream,
\* under either name and either mapping time
DbNames == {"x", "y"}
DbStamps == {1, 2}
DbSetBatches ==
  {[id \in {Str(x) : x \in SetIds(n)} |-> mapSetToInsert(SetApi(id.v), t)] :
     n \in 0..2, t \in DbStamps}
DbCardBatches ==
  {[id \in {Str(c) : c \in PageIds(1, n)} |->
      mapCardToInsert([CardApi(id.v) EXCEPT !.name = Str(nm)], t)] :
     n \in 0..2, nm \in DbNames, t \in DbStamps}

\* a call of the store writer: what it was handed, what the environment did to
\* its store call, whether the store was called, how it ended, the table after
CallRec(fn, rows, fault, stored, result, after) ==
  [ fn |-> fn, rows |-> rows, fault |-> fault, stored |-> stored,
    result |-> result, after |-> after ]

\* typeof count === "number" ? count : values.length
UpsertCount(rows) == Cardinality(DOMAIN rows)

upsertSets(rows) ==
  /\ Len(calls) < MaxDbCalls
  /\ IF DOMAIN rows = {}
       THEN /\ calls' = Append(calls, CallRec("upsertSets", rows, NoError, FALSE,
                                              Returned(0), sets))
            /\ sets' = sets
       ELSE \E fault \in StoreFaults :
              LET r == UpsertSets(sets, rows, fault)
              IN /\ sets' = r.table
                 /\ calls' = Append(calls,
                      CallRec("upsertSets", rows, fault, TRUE,
                              IF r.error # NoError THEN Threw(r.error)
                              ELSE Returned(UpsertCount(rows)), r.table))
  /\ UNCHANGED <<env, upSets, upPages, cards, ledger, clock, procs, inv, mapped, settings, binder>>

\* mutant: the store is called for an empty batch too
upsertCards_AlwaysStores(rows) ==
  /\ Len(calls) < MaxDbCalls
  /\ \E fault \in StoreFaults :
       LET r == UpsertCards(cards, rows, sets, fault)
       IN /\ cards' = r.table
          /\ calls' = Append(calls,
               CallRec("upsertCards", rows, fault, TRUE,
                       IF r.error # NoError THEN Threw(r.error)
                       ELSE Returned(UpsertCount(rows)), r.table))
  /\ UNCHANGED <<env, upSets, upPages, sets, ledger, clock, procs, inv, mapped, settings, binder>>

upsertCards(rows) ==
  /\ Len(calls) < MaxDbCalls
  /\ IF DOMAIN rows = {}
       THEN /\ calls' = Append(calls, CallRec("upsertCards", rows, NoError, FALSE,
                                              Returned(0), cards))
            /\ cards' = cards
       ELSE \E fault \in StoreFaults :
              LET r == UpsertCards(cards, rows, sets, fault)
              IN /\ cards' = r.table
                 /\ calls' = Append(calls,
                      CallRec("upsertCards", rows, fault, TRUE,
                              IF r.error # NoError THEN Threw(r.error)
                              ELSE Returned(UpsertCount(rows)), r.table))
  /\ UNCHANGED <<env, upSets, upPages, sets, ledger, clock, procs, inv, mapped, settings, binder>>

InitDb ==
  /\ env \in [SYNC_TOKEN : {Undefined}, hasStoreCreds : {TRUE}]
  /\ upSets = {}
  /\ upPages = [p \in {} |-> 0]
  /\ sets = EmptyTable
  /\ cards = EmptyTable
  /\ ledger = <<>>
  /\ clock = 0
  /\ procs = {}
  /\ inv = [i \in procs |-> Idle]
  /\ calls = <<>>
  /\ mapped = NotMapped
  /\ settings = NoPage
  /\ binder = NoBinder

NextDb ==
  \/ \E rows \in DbSetBatches : upsertSets(rows)
  \/ \E rows \in DbCardBatches : upsertCards(rows)

SpecDb == InitDb /\ [][NextDb]_vars

(***************************************************************************)
(* Overlapping callers of the continuation endpoint: two callers, each     *)
(* submitting a first cursor and then the cursors it is answered, over an  *)
(* upstream whose content is fixed from the start.                         *)
(***************************************************************************)
\* page 1 is full or one record short, page 2 is short, the later pages empty
RunUpstreams ==
  {[p \in 1..MaxPages |-> IF p = 1 THEN a ELSE IF p = 2 THEN RunPageSize - 1 ELSE 0] :
     a \in {RunPageSize - 1, RunPageSize}}
\* the first cursor of a caller: the sets step, or cards page 1 straight away
RunRequests ==
  {[method |-> "POST", token |-> Undefined,
    body |-> Obj([step |-> st, page |-> Undefined, pageSize |-> Num(RunPageSize)])] :
     st \in {Str("sets"), Str("cards")}}

InitOverlap ==
  /\ env = [SYNC_TOKEN |-> Undefined, hasStoreCreds |-> TRUE]
  /\ upSets \in {{n} : n \in SetLens}
  /\ upPages \in RunUpstreams
  /\ sets = EmptyTable
  /\ cards = EmptyTable
  /\ ledger = <<>>
  /\ clock = 0
  /\ procs = {1, 2}
  /\ inv = [i \in procs |-> Idle]
  /\ calls = <<>>
  /\ mapped = NotMapped
  /\ settings = NoPage
  /\ binder = NoBinder

NextOverlap ==
  \/ \E i \in procs, req \in RunRequests : handler_Begin(i, req)
  \/ \E i \in procs : handler_FetchSets(i)
  \/ \E i \in procs : handler_UpsertSets(i)
  \/ \E i \in procs : handler_LogSets(i)
  \/ \E i \in procs : handler_FetchCards(i)
  \/ \E i \in procs : handler_UpsertCards(i)
  \/ \E i \in procs : handler_LogError(i)
  \/ \E i \in procs : handler_Resubmit(i)

SpecOverlap == InitOverlap /\ [][NextOverlap]_vars

(***************************************************************************)
(* The whole program: the sync entry points and the store writer, each     *)
(* behaviour being one of a sync caller or of a user of the store writer.  *)
(***************************************************************************)
InitAll == Init \/ InitDb

NextAll ==
  \/ procs # {} /\ Next
  \/ procs = {} /\ NextDb

SpecAll == InitAll /\ [][NextAll]_vars

(***************************************************************************)
(* The mappers on their own: one upstream value, of any shape the parsed   *)
(* JSON of the upstream (or a caller of ensureJson) can have, is handed to *)
(* ensureJson, mapSetToInsert or mapCardToInsert.  A property the record   *)
(* lacks reads as undefined.                                               *)
(***************************************************************************)
\* values of the opaque fields
JsonShapes ==
  { Undefined, Null, Str("x"), Num(DefaultPage), Bool(TRUE), Arr(<<Str("x")>>),
    Obj([small |-> Str("u")]), Fn }

\* the elements of body.data of /sets
SetShapes ==
  { Obj([ id |-> i, name |-> n, images |-> img, legalities |-> leg,
          printedTotal |-> pt, total |-> tot, releaseDate |-> rest, series |-> rest ]) :
      i \in {Undefined, Str("base1")}, n \in {Undefined, Str("Base")},
      img \in {Undefined, Obj([logo |-> Str("u")]), Fn},
      leg \in {Undefined, Null},
      pt \in {Undefined, Num(DriverPageSize), Str("102")},
      tot \in {Undefined, Num(DriverPageSize)},
      rest \in {Undefined, Str("1999")} }

\* the elements of body.data of /cards
CardShapes ==
  { Obj([ id |-> i, name |-> n, number |-> num, images |-> img, legalities |-> opq,
          rarity |-> IF rest THEN Str("Rare") ELSE Undefined,
          set |-> st,
          subtypes |-> IF rest THEN Arr(<<Str("Stage 2")>>) ELSE Undefined,
          supertype |-> IF rest THEN Str("Pokemon") ELSE Undefined,
          tcgplayer |-> opq, cardmarket |-> opq,
          types |-> IF rest THEN Arr(<<Str("Fire")>>) ELSE Undefined ]) :
      i \in {Undefined, Str("base1-4")}, n \in {Undefined, Str("Charizard")},
      num \in {Undefined, Str("4")},
      img \in {Undefined, Obj([small |-> Str("u")]), Fn},
      st \in { Undefined, Null, Str("base1"), Obj([id |-> Str("base1")]),
               Obj([id |-> Undefined]) },
      opq \in {Undefined, Obj([url |-> Str("u")]), Fn},
      rest \in BOOLEAN }

\* a page may hold the JSON null in place of a record
SetElems == SetShapes \cup {Null}
CardElems == CardShapes \cup {Null}
MapArgs == JsonShapes \cup SetElems \cup CardElems

\* new Date().toISOString()
IsoNow == Str("t" \o ToString(clock))

\* reading a property of null or undefined raises a TypeError
TypeErrorOf(elem, key) ==
  "Cannot read properties of " \o elem.t \o " (reading '" \o key \o "')"

\* mapSetToInsert(elem) as sets.map calls it: the first read is row.id
MapSetElement(elem, now) ==
  IF IsNullish(elem) THEN Threw(TypeErrorOf(elem, "id"))
  ELSE Returned(mapSetToInsert(elem.v, now))

\* mapCardToInsert(elem) as data.map calls it: the first read is row.set
MapCardElement(elem, now) ==
  IF IsNullish(elem) THEN Threw(TypeErrorOf(elem, "set"))
  ELSE Returned(mapCardToInsert(elem.v, now))

InitMap ==
  /\ env = [SYNC_TOKEN |-> Undefined, hasStoreCreds |-> TRUE]
  /\ upSets = {}
  /\ upPages = [p \in {} |-> 0]
  /\ sets = EmptyTable
  /\ cards = EmptyTable
  /\ ledger = <<>>
  /\ clock = 0
  /\ procs = {}
  /\ inv = [i \in procs |-> Idle]
  /\ calls = <<>>
  /\ mapped \in {[fn |-> "none", arg |-> a, out |-> NoResp] : a \in MapArgs}
  /\ settings = NoPage
  /\ binder = NoBinder

ensureJson_Call ==
  /\ mapped.fn = "none"
  /\ mapped' = [mapped EXCEPT !.fn = "ensureJson",
                              !.out = Returned(ensureJson(mapped.arg))]
  /\ UNCHANGED <<env, upSets, upPages, sets, cards, ledger, clock, procs, inv, calls,
                 settings, binder>>

mapSetToInsert_Call ==
  /\ mapped.fn = "none"
  /\ mapped.arg \in SetElems
  /\ mapped' = [mapped EXCEPT !.fn = "mapSetToInsert",
                              !.out = MapSetElement(mapped.arg, IsoNow)]
  /\ UNCHANGED <<env, upSets, upPages, sets, cards, ledger, clock, procs, inv, calls,
                 settings, binder>>

mapCardToInsert_Call ==
  /\ mapped.fn = "none"
  /\ mapped.arg \in CardElems
  /\ mapped' = [mapped EXCEPT !.fn = "mapCardToInsert",
                              !.out = MapCardElement(mapped.arg, IsoNow)]
  /\ UNCHANGED <<env, upSets, upPages, sets, cards, ledger, clock, procs, inv, calls,
                 settings, binder>>

NextMap ==
  \/ ensureJson_Call
  \/ mapSetToInsert_Call
  \/ mapCardToInsert_Call

SpecMap == InitMap /\ [][NextMap]_vars

(***************************************************************************)
(* Views of the ghost logs used by the properties.                         *)
(***************************************************************************)
FetchesOf(v) == SelectSeq(v.fetches, LAMBDA r : r.inv = v.id)
CardFetchesOf(v) == SelectSeq(v.fetches, LAMBDA r : r.inv = v.id /\ r.what = "cards")
SetFetchesOf(v) == SelectSeq(v.fetches, LAMBDA r : r.inv = v.id /\ r.what = "sets")
WritesOf(v) == SelectSeq(v.writes, LAMBDA r : r.inv = v.id)
LogsOf(v) == SelectSeq(v.logs, LAMBDA r : r.inv = v.id)
LedgerOf(v) == SelectSeq(ledger, LAMBDA r : r.inv = v.id)
LedgerOfRun(v) == SelectSeq(ledger, LAMBDA r : r.run = v.run)

RECURSIVE SumLen(_)
SumLen(seq) == IF seq = <<>> THEN 0 ELSE Head(seq).len + SumLen(Tail(seq))

\* no fetch, upsert or ledger insert of the invocation failed
NoFailure(v) ==
  /\ \A j \in 1..Len(FetchesOf(v)) : FetchesOf(v)[j].status = 200
  /\ \A j \in 1..Len(WritesOf(v)) : WritesOf(v)[j].error = NoError
  /\ \A j \in 1..Len(LogsOf(v)) : LogsOf(v)[j].accepted
WriteFailed(v) == \E j \in 1..Len(WritesOf(v)) : WritesOf(v)[j].error # NoError

IsDriver(v) == v.kind \in {"driver", "service"}
Succeeded(v) ==
  /\ v.pc = "done"
  /\ \/ v.resp.kind = "http" /\ v.resp.status = 200
     \/ v.resp.kind = "return"

(***************************************************************************)
(* C1.  Cursor correctness in continuation mode: a cards step invoked with *)
(* page p >= 1 and pageSize z >= 1 fetches page p with size z; when the    *)
(* page has exactly z records it answers hasMore=true and nextPage=p+1,    *)
(* when it has fewer it answers hasMore=false and no next page.  The only  *)
(* other answer of such a step is the 500 of a failed store write.         *)
(***************************************************************************)
CardsStepDone(v) ==
  /\ v.kind = "endpoint" /\ v.pc = "done" /\ v.req.method = "POST"
  /\ v.req.body.t = "object"
  /\ v.req.body.v.step = Str("cards")
  /\ v.req.body.v.page.t = "number" /\ v.req.body.v.page.v >= 1
  /\ v.req.body.v.pageSize.t = "number" /\ v.req.body.v.pageSize.v >= 1
  /\ Len(CardFetchesOf(v)) = 1 /\ CardFetchesOf(v)[1].status = 200

C1_CursorCorrectness ==
  \A i \in procs :
    LET v == inv[i]
        p == v.req.body.v.page.v
        z == v.req.body.v.pageSize.v
        f == CardFetchesOf(v)[1]
    IN CardsStepDone(v) =>
         /\ f.page = p /\ f.pageSize = z
         /\ v.resp.kind = "http"
         /\ IF WriteFailed(v) THEN v.resp.status = 500
            ELSE /\ v.resp.status = 200
                 /\ f.len = z => v.resp.body.hasMore /\ v.resp.body.nextPage = Num(p + 1)
                 /\ f.len < z => ~v.resp.body.hasMore /\ v.resp.body.nextPage = Null

C1_Witness ==
  \E i \in procs :
    /\ CardsStepDone(inv[i])
    /\ inv[i].req.body.v.page.v = 2
    /\ CardFetchesOf(inv[i])[1].len = inv[i].req.body.v.pageSize.v
    /\ inv[i].resp.status = 200
    /\ inv[i].resp.body.nextPage = Num(3)

(***************************************************************************)
(* C2.  Pagination termination in driver mode: when the upstream serves    *)
(* pages 1..k with pageSize records and page k+1 with fewer (0 included),  *)
(* a driver run fetches pages 1, 2, ... in that order, never more than k+1 *)
(* of them, and a run that met no failure has fetched exactly k+1 when it  *)
(* is done.                                                                *)
(***************************************************************************)
FullPrefix(k) == \A p \in 1..k : p \in DOMAIN upPages /\ upPages[p] = DriverPageSize
ShortAt(p) == p \in DOMAIN upPages /\ upPages[p] < DriverPageSize

C2_PaginationTermination ==
  \A i \in procs :
    LET v == inv[i]
        cf == CardFetchesOf(v)
        n == Len(cf)
    IN IsDriver(v) =>
         \* pages 1, 2, ... in order, each after a full page
         /\ \A j \in 1..n : cf[j].page = j /\ cf[j].pageSize = DriverPageSize
         /\ \A j \in 1..n - 1 : cf[j].status = 200 /\ cf[j].len >= DriverPageSize
         \* the run goes on after a full page and is done after a short one
         /\ (v.pc = "done" /\ NoFailure(v) /\ n > 0) =>
              cf[n].len < DriverPageSize /\ Succeeded(v)
         /\ (v.pc = "fetchCards" /\ n > 0) => cf[n].len >= DriverPageSize
         \* k full pages and a short one: k+1 fetches, no more
         /\ \A k \in 0..MaxPages :
              (FullPrefix(k) /\ ShortAt(k + 1)) =>
                 /\ n <= k + 1
                 /\ (v.pc = "done" /\ NoFailure(v) /\ n > 0) => n = k + 1

C2_Witness ==
  \E i \in procs :
    /\ inv[i].kind = "service" /\ Succeeded(inv[i])
    /\ FullPrefix(MaxPages) /\ ShortAt(MaxPages + 1)
    /\ Len(CardFetchesOf(inv[i])) = MaxPages + 1

(***************************************************************************)
(* C3.  A driver run in which no fetch and no store write failed returns   *)
(* setsUpserted = the number of sets fetched and cardsUpserted = the sum   *)
(* of the lengths of the card pages fetched, and has written exactly one   *)
(* ledger record, ok=true, whose notes {sets, cards} are those counts.     *)
(***************************************************************************)
ResultOf(v) == IF v.resp.kind = "return" THEN v.resp.value ELSE v.resp.body

IsPost(v) == v.kind \in {"endpoint", "driver"} /\ v.req.method = "POST"
SecretConfigured == env.SYNC_TOKEN.t = "string" /\ env.SYNC_TOKEN.v # ""
InSyncStep(v) == v.pc # "done" \/ v.fetches # <<>> \/ v.logs # <<>>

C4_AuthorizationGate ==
  \A i \in procs :
    LET v == inv[i]
    IN IsPost(v) =>
         IF SecretConfigured /\ v.req.token # env.SYNC_TOKEN
           THEN /\ v.pc = "done"
                /\ v.resp = Http(401, [error |-> "Unauthorized"])
                /\ v.fetches = <<>> /\ v.writes = <<>> /\ v.logs = <<>>
                /\ sets = EmptyTable /\ cards = EmptyTable /\ ledger = <<>>
           ELSE /\ ~(v.resp.kind = "http" /\ v.resp.status = 401)
                /\ env.hasStoreCreds => InSyncStep(v)

C4_Witness ==
  \E i \in procs :
    /\ IsPost(inv[i]) /\ SecretConfigured
    /\ inv[i].req.token = Str("wrong")
    /\ inv[i].resp = Http(401, [error |-> "Unauthorized"])


(***************************************************************************)
(* C5.  Failure recording, as claimed: when the store write of a cards     *)
(* step fails, the invocation writes exactly one ledger record, ok=false   *)
(* with a non-empty error note, and answers 500 with the same message.     *)
(***************************************************************************)
CardsWriteFailed(v) ==
  /\ v.kind = "endpoint" /\ v.pc = "done"
  /\ \E j \in 1..Len(WritesOf(v)) :
       WritesOf(v)[j].table = "cards" /\ WritesOf(v)[j].error # NoError

C5_FailureRecording ==
  \A i \in procs :
    LET v == inv[i]
    IN CardsWriteFailed(v) =>
         /\ Len(LedgerOf(v)) = 1
         /\ LedgerOf(v)[1].ok = FALSE
         /\ LedgerOf(v)[1].notes.error # ""
         /\ v.resp = Http(500, [error |-> LedgerOf(v)[1].notes.error])

(***************************************************************************)
(* C5, amended.  When the store write of a cards step fails, the           *)
(* invocation attempts one ledger insert, of an ok=false record whose note *)
(* is the error message: the ledger holds exactly that one record of the   *)
(* invocation when the store accepts the insert and none when it refuses   *)
(* it; either way the answer is a 500 carrying the message, never a        *)
(* success body.                                                           *)
(***************************************************************************)
C5_FailureRecordingBestEffort ==
  \A i \in procs :
    LET v == inv[i]
        msg == WritesOf(v)[Len(WritesOf(v))].error
    IN CardsWriteFailed(v) =>
         /\ msg # ""
         /\ v.resp = Http(500, [error |-> msg])
         /\ Len(LogsOf(v)) = 1 /\ LogsOf(v)[1].ok = FALSE
         /\ IF LogsOf(v)[1].accepted
              THEN /\ Len(LedgerOf(v)) = 1
                   /\ LedgerOf(v)[1].ok = FALSE
                   /\ LedgerOf(v)[1].notes = [error |-> msg]
              ELSE LedgerOf(v) = <<>>

C5_Witness ==
  \E i \in procs :
    /\ CardsWriteFailed(inv[i])
    /\ Len(LedgerOf(inv[i])) = 1
    /\ inv[i].resp.status = 500

(***************************************************************************)
(* C7, as claimed.  A POST without a body runs the whole import in driver  *)
(* mode: the sets step and every cards page within the one invocation,     *)
(* answered with the final counts rather than a next cursor.               *)
(***************************************************************************)
NoBodyPost(v) ==
  /\ v.kind = "endpoint" /\ v.req.method = "POST" /\ v.req.body = Undefined
  /\ InSyncStep(v)

LogicalRun(v) ==
  \/ IsDriver(v) /\ v.fetches # <<>>
  \/ v.kind = "endpoint" /\ v.trail # <<>> /\ v.trail[1].step = Str("sets")
RunEnded(v) == v.pc = "done" /\ ~MoreToDo(v.resp)

C8_OneLedgerRecordPerRun ==
  \A i \in procs :
    LET v == inv[i]
    IN (LogicalRun(v) /\ RunEnded(v) /\ \A j \in 1..Len(v.logs) : v.logs[j].accepted) =>
         Len(LedgerOfRun(v)) = 1

(***************************************************************************)
(* C9.  Ledger writes are best-effort: when the store refuses the insert   *)
(* of the record of a successful sync (a driver run, or the sets step of   *)
(* continuation mode) the invocation still answers with success and its    *)
(* counts or next cursor, and writes no ok=false record.                   *)
(***************************************************************************)
SuccessLogRefused(v) ==
  \E j \in 1..Len(LogsOf(v)) : LogsOf(v)[j].ok /\ ~LogsOf(v)[j].accepted

C9_LedgerBestEffort ==
  \A i \in procs :
    LET v == inv[i]
    IN SuccessLogRefused(v) =>
         /\ Succeeded(v)
         /\ ResultOf(v).setsUpserted = SumLen(SetFetchesOf(v))
         /\ IF v.kind = "endpoint"
              THEN ResultOf(v).next = [step |-> "cards", page |-> 1, pageSize |-> v.pageSize]
              ELSE ResultOf(v).cardsUpserted = SumLen(CardFetchesOf(v))
         /\ Len(LogsOf(v)) = 1
         /\ LedgerOf(v) = <<>>

C9_Witness ==
  \E i \in procs :
    /\ inv[i].kind = "endpoint"
    /\ SuccessLogRefused(inv[i])
    /\ inv[i].resp.kind = "http" /\ inv[i].resp.status = 200
    /\ ledger = <<>>

(***************************************************************************)
(* C10.  No automatic retries: within one invocation the sets request is   *)
(* issued at most once, each card page is requested at most once and each  *)
(* fetched batch is written at most once; after a failed fetch or write    *)
(* the invocation neither fetches nor writes again.                        *)
(***************************************************************************)
C10_NoRetries ==
  \A i \in procs :
    LET v == inv[i]
        f == FetchesOf(v)
        cf == CardFetchesOf(v)
        w == WritesOf(v)
    IN /\ Len(SetFetchesOf(v)) <= 1
       /\ \A j, k \in 1..Len(cf) : j # k => cf[j].page # cf[k].page
       /\ \A j, k \in 1..Len(w) :
            j # k => <<w[j].table, w[j].page>> # <<w[k].table, w[k].page>>
       \* every write is the write of a batch this invocation fetched
       /\ \A j \in 1..Len(w) :
            \E k \in 1..Len(f) :
              /\ f[k].what = w[j].table /\ f[k].page = w[j].page
              /\ f[k].status = 200 /\ f[k].len = w[j].n
       \* a failure is the last thing the invocation did to upstream and store
       /\ \A j \in 1..Len(f) - 1 : f[j].status = 200
       /\ \A j \in 1..Len(w) - 1 : w[j].error = NoError
       /\ (\E j \in 1..Len(f) : f[j].status # 200) => v.pc \in {"logError", "done"}
       /\ WriteFailed(v) => v.pc \in {"logError", "done"}
       /\ v.kind = "endpoint" => Len(f) <= 1 /\ Len(w) <= 1

C10_Witness ==
  \E i \in procs :
    /\ inv[i].kind = "service" /\ inv[i].pc = "done"
    /\ Len(CardFetchesOf(inv[i])) = 2
    /\ CardFetchesOf(inv[i])[2].status = 500
    /\ Len(WritesOf(inv[i])) = 2


(***************************************************************************)
(* C6.  Idempotence of the store writer: upserting the same mapped batch   *)
(* of sets or of cards twice in a row leaves the table as the first upsert *)
(* left it (the same keys and rows; the same apart from synced_at when the *)
(* batch was mapped again), and the second upsert is not an error.         *)
(***************************************************************************)
Unstamped(table) == [id \in DOMAIN table |-> [table[id] EXCEPT !.synced_at = 0]]

C6_UpsertIdempotent ==
  \A j \in 1..Len(calls) - 1 :
    LET a == calls[j]
        b == calls[j + 1]
    IN (/\ a.fn = b.fn /\ a.stored
        /\ Unstamped(a.rows) = Unstamped(b.rows)
        /\ a.result.kind = "return" /\ b.fault = NoError) =>
         /\ b.result = a.result
         /\ Unstamped(b.after) = Unstamped(a.after)
         /\ a.rows = b.rows => b.after = a.after
         /\ DOMAIN b.after = DOMAIN a.after

C6_Witness ==
  /\ Len(calls) = 3
  /\ calls[2].fn = "upsertCards" /\ calls[2].rows = calls[3].rows
  /\ Cardinality(DOMAIN calls[2].rows) = 2
  /\ calls[2].result = Returned(2) /\ calls[3].result = Returned(2)
  /\ cards = calls[2].after


(***************************************************************************)
(* C11, as claimed.  Fatal failures abort and surface: when a fetch is     *)
(* answered with a non-success status or an upsert with an error in a      *)
(* driver run, the run fetches and writes nothing more, writes a ledger    *)
(* record with ok=false carrying the error message, and ends with an       *)
(* explicit error (a thrown error or a 500), never with a success result.  *)
(***************************************************************************)
FetchFailed(v) == \E j \in 1..Len(FetchesOf(v)) : FetchesOf(v)[j].status # 200
\* the message of the failure the invocation met
FailureMessage(v) ==
  LET f == FetchesOf(v)[Len(FetchesOf(v))]
  IN IF WriteFailed(v) THEN WritesOf(v)[Len(WritesOf(v))].error
     ELSE IF f.what = "sets" THEN FetchSetsError(f.status)
     ELSE FetchCardsError(f.page, f.status)
\* the failure was the last fetch or write of the invocation
Aborted(v) ==
  LET f == FetchesOf(v)
      w == WritesOf(v)
  IN /\ \A j \in 1..Len(f) - 1 : f[j].status = 200
     /\ \A j \in 1..Len(w) - 1 : w[j].error = NoError
     /\ FetchFailed(v) =>
          /\ ~WriteFailed(v)
          /\ \A j \in 1..Len(w) :
               <<w[j].table, w[j].page>> # <<f[Len(f)].what, f[Len(f)].page>>
     /\ WriteFailed(v) =>
          <<w[Len(w)].table, w[Len(w)].page>> = <<f[Len(f)].what, f[Len(f)].page>>
     /\ v.pc \in {"logError", "done"}
     /\ v.err = FailureMessage(v)
ErrorResult(v) ==
  IF v.kind = "service" THEN Threw(FailureMessage(v))
  ELSE Http(500, [error |-> FailureMessage(v)])

C11_FatalFailuresRecorded ==
  \A i \in procs :
    LET v == inv[i]
    IN (IsDriver(v) /\ (FetchFailed(v) \/ WriteFailed(v)) /\ v.pc = "done") =>
         /\ Aborted(v)
         /\ v.resp = ErrorResult(v)
         /\ Len(LedgerOf(v)) = 1
         /\ LedgerOf(v)[1].ok = FALSE
         /\ LedgerOf(v)[1].notes = [error |-> FailureMessage(v)]

(***************************************************************************)
(* C11, amended.  The run fetches and writes nothing more after the        *)
(* failure, attempts exactly one ledger insert, of an ok=false record      *)
(* carrying the error message (the ledger holds that record when the store *)
(* accepts the insert and none of the run when it refuses it), and ends    *)
(* with the thrown error or the 500 carrying the message.                  *)
(***************************************************************************)
C11_FatalFailuresAbort ==
  \A i \in procs :
    LET v == inv[i]
    IN (IsDriver(v) /\ (FetchFailed(v) \/ WriteFailed(v))) =>
         /\ Aborted(v)
         /\ FailureMessage(v) # ""
         /\ v.pc = "logError" => v.logs = <<>> /\ LedgerOf(v) = <<>>
         /\ v.pc = "done" =>
              /\ v.resp = ErrorResult(v) /\ ~Succeeded(v)
              /\ Len(LogsOf(v)) = 1 /\ LogsOf(v)[1].ok = FALSE
              /\ IF LogsOf(v)[1].accepted
                   THEN /\ Len(LedgerOf(v)) = 1
                        /\ LedgerOf(v)[1].ok = FALSE
                        /\ LedgerOf(v)[1].notes = [error |-> FailureMessage(v)]
                   ELSE LedgerOf(v) = <<>>

C11_Witness ==
  \E i \in procs :
    /\ inv[i].kind = "service" /\ inv[i].pc = "done"
    /\ Len(CardFetchesOf(inv[i])) = 2 /\ CardFetchesOf(inv[i])[2].status = 429
    /\ Len(LedgerOf(inv[i])) = 1 /\ LedgerOf(inv[i])[1].ok = FALSE
    /\ inv[i].resp = Threw(FetchCardsError(2, 429))


(***************************************************************************)
(* C12.  The two drivers share identical per-step semantics: a caller that *)
(* starts at step sets with the drivers' pageSize and resubmits each       *)
(* returned cursor until hasMore=false causes the fetches and upserts of   *)
(* one driver run over the same upstream: the sets, then pages 1, 2, ...   *)
(* each written when non-empty, going on after every page that is not      *)
(* shorter than pageSize and stopping at the first one that is.            *)
(***************************************************************************)
RunCardFetches(v) == SelectSeq(v.fetches, LAMBDA r : r.what = "cards")
ContinuationRun(v) ==
  /\ v.kind = "endpoint" /\ v.trail # <<>>
  /\ v.trail[1].step = Str("sets") /\ v.trail[1].pageSize = DriverPageSize
RunUnfailed(v) ==
  /\ \A j \in 1..Len(v.fetches) : v.fetches[j].status = 200
  /\ \A j \in 1..Len(v.writes) : v.writes[j].error = NoError

C12_DriversEquivalent ==
  \A i \in procs :
    LET v == inv[i]
        cf == RunCardFetches(v)
        n == Len(cf)
    IN (ContinuationRun(v) /\ RunEnded(v) /\ RunUnfailed(v)) =>
         /\ Len(v.fetches) = n + 1 /\ v.fetches[1].what = "sets"
         /\ \A j \in 1..n : cf[j].page = j /\ cf[j].pageSize = DriverPageSize
         /\ \A j \in 1..n - 1 : ~LastPage(cf[j].len, DriverPageSize)
         /\ n > 0 /\ LastPage(cf[n].len, DriverPageSize)
         /\ \A j \in 1..n :
              cf[j].len > 0 <=>
                \E k \in 1..Len(v.writes) :
                  v.writes[k].table = "cards" /\ v.writes[k].page = j
                  /\ v.writes[k].n = cf[j].len


(***************************************************************************)
(* C13.  Every failure of an authorized POST to the sync endpoint, missing *)
(* store credentials and a refused ledger insert of the error handling     *)
(* included, is answered with status 500 and a JSON body holding an error  *)
(* message; no failure leaves the handler as an exception.                 *)
(***************************************************************************)
AuthorizedPost(v) ==
  IsPost(v) /\ ~(SecretConfigured /\ v.req.token # env.SYNC_TOKEN)

C13_FailuresAnswered ==
  \A i \in procs :
    LET v == inv[i]
    IN (AuthorizedPost(v) /\ v.pc = "done" /\ ~Succeeded(v)) =>
         /\ v.resp.kind = "http" /\ v.resp.status = 500
         /\ "error" \in DOMAIN v.resp.body /\ v.resp.body.error # ""


(***************************************************************************)
(* C14.  Store key uniqueness: the sets table and the cards table hold at  *)
(* most one row per external id, filed under that id; a write adds the     *)
(* rows of new ids, replaces the row of every id it carries by the whole   *)
(* new row (no field of the old row survives) and leaves the other rows    *)
(* as they were; a refused write changes nothing.                          *)
(***************************************************************************)
\* the table the j-th call of the store writer found
TableBefore(j) ==
  LET earlier == {k \in 1..j - 1 : calls[k].fn = calls[j].fn}
  IN IF earlier = {} THEN EmptyTable
     ELSE calls[CHOOSE k \in earlier : \A m \in earlier : m <= k].after
Replaced(before, rows, after) ==
  /\ DOMAIN after = DOMAIN before \cup DOMAIN rows
  /\ \A id \in DOMAIN rows : after[id] = rows[id]
  /\ \A id \in DOMAIN before \ DOMAIN rows : after[id] = before[id]
\* the rows the sync callers wrote are whole mapped records of the upstream
WholeRows ==
  /\ \A id \in DOMAIN sets :
       LET row == sets[id]
       IN /\ row.id = id
          /\ procs # {} => row = mapSetToInsert(SetApi(id.v), row.synced_at)
  /\ \A id \in DOMAIN cards :
       LET row == cards[id]
       IN /\ row.id = id
          /\ procs # {} => row = mapCardToInsert(CardApi(id.v), row.synced_at)

CardsPageFetched(v) ==
  /\ v.kind = "endpoint" /\ v.pc = "done" /\ v.step = Str("cards")
  /\ Len(CardFetchesOf(v)) = 1
  /\ CardFetchesOf(v)[1].status = 200 /\ CardFetchesOf(v)[1].len > 0
StoreCallFaulted(v) ==
  \E j \in 1..Len(WritesOf(v)) : WritesOf(v)[j].error \in StoreFaults \ {NoError}

C15_SetReferenceNotValidated ==
  \A i \in procs :
    LET v == inv[i]
    IN (CardsPageFetched(v) /\ ~StoreCallFaulted(v)) =>
         /\ v.resp.kind = "http" /\ v.resp.status = 200
         /\ \A c \in PageIds(v.page, v.dataLen) : Str(c) \in DOMAIN cards


(***************************************************************************)
(* C16.  An empty batch is a no-op: upsertSets and upsertCards called with *)
(* zero rows return 0 without calling the store and leave the table as it  *)
(* was, and a sync step whose fetch returned zero records issues no upsert *)
(* to sets or cards.                                                       *)
(***************************************************************************)
C16_EmptyBatchNoOp ==
  /\ \A j \in 1..Len(calls) :
       /\ calls[j].stored <=> DOMAIN calls[j].rows # {}
       /\ DOMAIN calls[j].rows = {} =>
            /\ calls[j].result = Returned(0)
            /\ calls[j].after = TableBefore(j)
  /\ \A i \in procs :
       LET f == FetchesOf(inv[i])
           w == WritesOf(inv[i])
       IN /\ \A j \in 1..Len(w) : w[j].n > 0
          /\ \A j \in 1..Len(f) :
               f[j].len = 0 =>
                 \A k \in 1..Len(w) :
                   <<w[k].table, w[k].page>> # <<f[j].what, f[j].page>>
          \* a step that fetched nothing and wrote nothing is not a failure
          /\ (inv[i].pc = "done" /\ f # <<>> /\ w = <<>>
              /\ \A j \in 1..Len(f) : f[j].status = 200) => Succeeded(inv[i])

C16_Witness ==
  /\ Len(calls) = 2
  /\ calls[1].fn = "upsertSets" /\ calls[1].result = Returned(2)
  /\ calls[2].fn = "upsertSets" /\ DOMAIN calls[2].rows = {}
  /\ calls[2].result = Returned(0) /\ ~calls[2].stored
  /\ sets = calls[1].after


(***************************************************************************)
(* C17.  On a non-success upstream response fetchSets and fetchCardsPage   *)
(* raise an error that carries both the HTTP status and the response body, *)
(* and issue no second request.                                            *)
(***************************************************************************)
\* the body the upstream sends along with a non-success status
UpstreamErrorBody(status) ==
  IF status = 429 THEN "Too Many Requests" ELSE "Internal Server Error"
\* the messages that name the request and carry the status and the body
CarryingStatusAndBody(f) ==
  LET base == IF f.what = "sets" THEN FetchSetsError(f.status)
              ELSE FetchCardsError(f.page, f.status)
  IN {base \o sep \o UpstreamErrorBody(f.status) : sep \in {" ", ": ", " - ", ", "}}

C17_FetchErrorCarriesStatusAndBody ==
  \A i \in procs :
    LET v == inv[i]
        f == FetchesOf(v)
    IN FetchFailed(v) =>
         /\ f[Len(f)].status # 200
         /\ \A j \in 1..Len(f) - 1 : f[j].status = 200
         /\ v.err \in CarryingStatusAndBody(f[Len(f)])


(***************************************************************************)
(* C18.  Concurrent overlapping runs are safe: with two callers of the     *)
(* continuation endpoint in flight over the same unchanged upstream, in    *)
(* every interleaving of their fetches and upserts the tables only ever    *)
(* hold rows that a single run writes, and once a run that started at the  *)
(* sets step has ended without a failure the sets and cards tables are the *)
(* tables a single run produces (same keys, same values apart from         *)
(* synced_at), whatever the other caller did or is doing.                  *)
(***************************************************************************)
UpLen(p) == IF p \in DOMAIN upPages THEN upPages[p] ELSE 0
\* the last page a single run fetches: the first that announces no next page
SingleRunLastPage ==
  CHOOSE k \in 1..MaxPages + 1 :
    /\ ~HasMore(UpLen(k), RunPageSize)
    /\ \A p \in 1..k - 1 : HasMore(UpLen(p), RunPageSize)
SingleRunSets == SetInserts(CHOOSE n \in upSets : TRUE, 0)
SingleRunCards ==
  LET ids == UNION {PageIds(p, UpLen(p)) : p \in 1..SingleRunLastPage}
  IN [id \in {Str(c) : c \in ids} |-> mapCardToInsert(CardApi(id.v), 0)]
Within(table, whole) ==
  \A id \in DOMAIN table : id \in DOMAIN whole /\ Unstamped(table)[id] = whole[id]
StartedAtSets(v) ==
  v.kind = "endpoint" /\ v.trail # <<>> /\ v.trail[1].step = Str("sets")

C18_OverlappingRunsSafe ==
  /\ Within(sets, SingleRunSets)
  /\ Within(cards, SingleRunCards)
  /\ \A i \in procs :
       (StartedAtSets(inv[i]) /\ RunEnded(inv[i]) /\ RunUnfailed(inv[i])) =>
          /\ Unstamped(sets) = SingleRunSets
          /\ Unstamped(cards) = SingleRunCards

\* both runs ended without a failure, the second having started while the
\* first was in flight and written page 1 after the first wrote page 2
C18_Witness ==
  /\ \A i \in procs : StartedAtSets(inv[i]) /\ RunEnded(inv[i]) /\ RunUnfailed(inv[i])
  /\ inv[1].trail[1].inv < inv[2].trail[1].inv
  /\ inv[2].trail[1].inv < inv[1].trail[2].inv
  /\ Len(inv[1].trail) = 3 /\ Len(inv[2].trail) = 3
  /\ inv[1].trail[3].inv < inv[2].trail[2].inv
  /\ Cardinality(DOMAIN cards) = 2 * RunPageSize - 1
  /\ \E c \in DOMAIN cards : cards[c].synced_at = inv[2].trail[2].inv


(***************************************************************************)
(* C19.  Continuation invocations are stateless and total: two invocations *)
(* with the same cursor {step, page, pageSize} over the same upstream,     *)
(* neither of which met an upstream failure or a store call failed by the  *)
(* environment, give the same response and issue the same store writes,    *)
(* whichever invocations ran before them; and every successful response    *)
(* with more work to do holds the step, page and pageSize to submit next.  *)
(***************************************************************************)
SameCursor(a, b) ==
  /\ a.kind = "endpoint" /\ b.kind = "endpoint"
  /\ a.pc = "done" /\ b.pc = "done" /\ a.step # Undefined
  /\ <<a.step, a.page, a.pageSize>> = <<b.step, b.page, b.pageSize>>
Undisturbed(a) == ~FetchFailed(a) /\ ~StoreCallFaulted(a)
WriteShape(a) ==
  [j \in 1..Len(WritesOf(a)) |->
     <<WritesOf(a)[j].table, WritesOf(a)[j].page, WritesOf(a)[j].n>>]
CompleteCursor(resp) ==
  IF "next" \in DOMAIN resp.body
    THEN DOMAIN resp.body.next = {"step", "page", "pageSize"}
  ELSE /\ {"step", "nextPage", "pageSize"} \subseteq DOMAIN resp.body
       /\ resp.body.nextPage # Null

C19_StatelessAndTotal ==
  /\ \A i, j \in procs :
       (SameCursor(inv[i], inv[j]) /\ Undisturbed(inv[i]) /\ Undisturbed(inv[j])) =>
          /\ inv[i].resp = inv[j].resp
          /\ WriteShape(inv[i]) = WriteShape(inv[j])
  /\ \A i \in procs :
       (inv[i].pc = "done" /\ MoreToDo(inv[i].resp)) => CompleteCursor(inv[i].resp)


(***************************************************************************)
(* C20.  A successful sets step of continuation mode returns the next      *)
(* cursor {step: "cards", page: 1}, whatever page the request carried,     *)
(* with the pageSize the step used: the request's when that is a positive  *)
(* number, 250 otherwise.                                                  *)
(***************************************************************************)
SetsStepSucceeded(v) ==
  v.kind = "endpoint" /\ v.step = Str("sets") /\ Succeeded(v)
RequestedPageSize(req) ==
  IF req.body.t = "object" /\ req.body.v.pageSize.t = "number"
     /\ req.body.v.pageSize.v > 0
    THEN req.body.v.pageSize.v ELSE DefaultPageSize

C20_SetsStepNextCursor ==
  \A i \in procs :
    LET v == inv[i]
    IN SetsStepSucceeded(v) =>
         /\ v.resp.status = 200
         /\ v.resp.body.step = "sets"
         /\ v.resp.body.next =
              [step |-> "cards", page |-> 1, pageSize |-> RequestedPageSize(v.req)]
         /\ CardFetchesOf(v) = <<>>

C20_Witness ==
  \E i \in procs :
    /\ SetsStepSucceeded(inv[i])
    /\ inv[i].req.body.t = "object"
    /\ inv[i].req.body.v.page = Num(MaxPages + 1)
    /\ inv[i].req.body.v.pageSize = Num(1)
    /\ inv[i].resp.body.next = [step |-> "cards", page |-> 1, pageSize |-> 1]

(***************************************************************************)
(* C21.  Mapping defaulting: mapCardToInsert applied to a card record that *)
(* lacks number, images and set gives a row with number = null,            *)
(* images = null, set_id = "" and raw equal to the original record; every  *)
(* other optional field the record lacks is null in the row.               *)
(***************************************************************************)
\* the optional fields of CardApi and the column each is stored in
CardColumnOf ==
  [ number |-> "number", images |-> "images", legalities |-> "legalities",
    rarity |-> "rarity", subtypes |-> "subtypes", supertype |-> "supertype",
    tcgplayer |-> "tcgplayer_ref", cardmarket |-> "cardmarket_ref",
    types |-> "types" ]

CardMapped == mapped.fn = "mapCardToInsert" /\ mapped.arg.t = "object"

LacksNumberImagesSet ==
  /\ CardMapped
  /\ mapped.arg.v.number = Undefined
  /\ mapped.arg.v.images = Undefined
  /\ mapped.arg.v.set = Undefined

C21_MappingDefaulting ==
  LacksNumberImagesSet =>
    /\ mapped.out.kind = "return"
    /\ LET row == mapped.out.value
       IN /\ row.number = Null
          /\ row.images = Null
          /\ row.set_id = Str("")
          /\ row.raw = mapped.arg
          /\ \A f \in DOMAIN CardColumnOf :
               mapped.arg.v[f] = Undefined => row[CardColumnOf[f]] = Null

\* a card with nothing but id and name was mapped
C21_Witness ==
  /\ LacksNumberImagesSet
  /\ \A f \in DOMAIN CardColumnOf : mapped.arg.v[f] = Undefined
  /\ mapped.arg.v.id = Str("base1-4")
  /\ mapped.out.kind = "return"
  /\ mapped.out.value.set_id = Str("")

(***************************************************************************)
(* C22.  mapSetToInsert and mapCardToInsert never omit a field: for every  *)
(* upstream record every column of the produced row, id and name included, *)
(* holds a value or an explicit empty value (null or ""), never undefined. *)
(***************************************************************************)
RowMapped ==
  /\ mapped.fn \in {"mapSetToInsert", "mapCardToInsert"}
  /\ mapped.out.kind = "return"

C22_NoFieldOmitted ==
  RowMapped => \A col \in DOMAIN mapped.out.value : mapped.out.value[col] # Undefined

\* the same, for the columns other than id and name
C22_OptionalColumnsPresent ==
  RowMapped =>
    \A col \in DOMAIN mapped.out.value \ {"id", "name"} :
      mapped.out.value[col] # Undefined

(***************************************************************************)
(* C23.  The mapper never fails: for every upstream value shape (a null    *)
(* element of the page, a set that is not an object, a function or other   *)
(* non-JSON value in images, legalities, tcgplayer or cardmarket)          *)
(* mapSetToInsert and mapCardToInsert return a row without raising, and    *)
(* ensureJson returns strings, numbers, booleans, arrays and objects       *)
(* unchanged and undefined for everything else.                            *)
(***************************************************************************)
JsonTypes == {"string", "number", "boolean", "array", "object"}

EnsureJsonTotal ==
  mapped.fn = "ensureJson" =>
    mapped.out = Returned(IF mapped.arg.t \in JsonTypes THEN mapped.arg ELSE Undefined)

C23_MapperNeverFails ==
  /\ mapped.fn \in {"mapSetToInsert", "mapCardToInsert"} => mapped.out.kind = "return"
  /\ EnsureJsonTotal

\* the same, for the pages whose elements are all objects
C23_ObjectsNeverFail ==
  /\ mapped.fn \in {"mapSetToInsert", "mapCardToInsert"} /\ mapped.arg.t = "object"
       => mapped.out.kind = "return"
  /\ EnsureJsonTotal

(***************************************************************************)
(* C24.  An OPTIONS request to the sync endpoint always succeeds with 204, *)
(* whether or not a secret is configured and whatever header is sent, and  *)
(* causes no upstream fetch, no store write and no ledger write.           *)
(***************************************************************************)
IsOptions(v) == v.kind \in {"endpoint", "driver"} /\ v.req.method = "OPTIONS"

C24_OptionsAlwaysSucceeds ==
  \A i \in procs :
    LET v == inv[i]
    IN IsOptions(v) =>
         /\ v.pc = "done"
         /\ v.resp = Http(204, Null)
         /\ v.fetches = <<>> /\ v.writes = <<>> /\ v.logs = <<>>
         /\ upSets = {} /\ DOMAIN upPages = {}
         /\ sets = EmptyTable /\ cards = EmptyTable /\ ledger = <<>>

\* a preflight with a wrong secret, and no store credentials, answered 204
C24_Witness ==
  \E i \in procs :
    /\ IsOptions(inv[i]) /\ inv[i].kind = "endpoint"
    /\ env.SYNC_TOKEN = Str("s3cret") /\ inv[i].req.token = Str("wrong")
    /\ ~env.hasStoreCreds
    /\ inv[i].resp = Http(204, Null)

(***************************************************************************)
(* C25.  Order of states in a driver-mode run: the sets fetch and the sets *)
(* upsert complete before the first card page is fetched, the card pages   *)
(* are visited as 1, 2, 3, ... with none skipped or repeated, and once the *)
(* run has reached done or error it performs no further fetch and no       *)
(* further sets or cards write.                                            *)
(***************************************************************************)
\* the run has left its loop: by the break, or by a throw into the catch block
AtEnd(v) == v.pc \in {"logOk", "logError", "done"}

SetsBeforeCards(v) ==
  LET f == FetchesOf(v)
      w == WritesOf(v)
  IN /\ Len(f) > 0 =>
          /\ f[1].what = "sets"
          /\ \A j \in 2..Len(f) : f[j].what = "cards" /\ f[1].status = 200
     /\ Len(f) > 1 /\ f[1].len > 0 =>
          Len(w) > 0 /\ w[1].table = "sets" /\ w[1].error = NoError
     /\ \A j \in 2..Len(w) : w[j].table = "cards"
     /\ Len(w) > 0 => Len(f) > 0
     /\ Len(w) > 0 /\ w[1].table = "cards" => f[1].len = 0

PagesInOrder(v) ==
  LET cf == CardFetchesOf(v)
      cw == SelectSeq(WritesOf(v), LAMBDA r : r.table = "cards")
  IN /\ \A j \in 1..Len(cf) : cf[j].page = j
     \* a page is written once, after it was fetched, before the next is fetched
     /\ \A j \in 1..Len(cw) : cw[j].page \in 1..Len(cf)
     /\ \A j, k \in 1..Len(cw) : j < k => cw[j].page < cw[k].page
     /\ \A j \in 1..Len(cf) :
          j < Len(cf) /\ cf[j].len > 0 =>
            \E k \in 1..Len(cw) : cw[k].page = j /\ cw[k].error = NoError

C25_StatesInOrder ==
  \A i \in procs : IsDriver(inv[i]) => SetsBeforeCards(inv[i]) /\ PagesInOrder(inv[i])

C25_EndIsFinal ==
  \A i \in procs :
    IsDriver(inv[i]) /\ AtEnd(inv[i]) =>
      /\ AtEnd(inv'[i])
      /\ inv'[i].fetches = inv[i].fetches /\ inv'[i].writes = inv[i].writes
      /\ upSets' = upSets /\ upPages' = upPages
      /\ sets' = sets /\ cards' = cards

C25_DriverStateOrder == [](C25_StatesInOrder) /\ [][C25_EndIsFinal]_vars

\* a run that wrote the sets, visited pages 1, 2 and 3 and ended
C25_Witness ==
  \E i \in procs :
    /\ inv[i].kind = "service" /\ inv[i].pc = "done"
    /\ Len(CardFetchesOf(inv[i])) = MaxPages + 1
    /\ inv[i].nSets > 0
    /\ inv[i].resp.kind = "return"

(***************************************************************************)
(* C26.  Sequential execution inside one invocation: at every moment at    *)
(* most one upstream fetch and at most one store write of the invocation   *)
(* is outstanding, and the fetch of page p+1 is issued only after the      *)
(* upsert of page p has completed.                                         *)
(***************************************************************************)
\* what the invocation is awaiting
AwaitsFetch(v) == v.pc \in {"fetchSets", "fetchCards"}

CardWritesOf(v) == SelectSeq(WritesOf(v), LAMBDA r : r.table = "cards")

\* the non-empty pages the invocation has read and not yet handed to the store
Unwritten(v) ==
  { j \in 1..Len(CardFetchesOf(v)) :
      /\ CardFetchesOf(v)[j].status = 200 /\ CardFetchesOf(v)[j].len > 0
      /\ \A k \in 1..Len(CardWritesOf(v)) :
           CardWritesOf(v)[k].page # CardFetchesOf(v)[j].page }

OneAtATime(v) ==
  /\ Cardinality(Unwritten(v)) <= 1
  /\ Unwritten(v) # {} => v.pc = "upsertCards" /\ Unwritten(v) = {Len(CardFetchesOf(v))}
  /\ AwaitsFetch(v) => Unwritten(v) = {}
  \* page p+1 was asked for after the upsert of page p had succeeded
  /\ \A j \in 2..Len(CardFetchesOf(v)) :
       \E k \in 1..Len(CardWritesOf(v)) :
         /\ CardWritesOf(v)[k].page + 1 = CardFetchesOf(v)[j].page
         /\ CardWritesOf(v)[k].error = NoError

C26_Sequential == \A i \in procs : inv[i].pc # "idle" => OneAtATime(inv[i])

\* a step of an invocation completes one fetch or one write, never two
C26_OneOperationAStep ==
  \A i \in procs :
    Len(inv'[i].fetches) + Len(inv'[i].writes) + Len(inv'[i].logs)
      <= Len(inv[i].fetches) + Len(inv[i].writes) + Len(inv[i].logs) + 1

C26_SequentialExecution == [](C26_Sequential) /\ [][C26_OneOperationAStep]_vars

\* page 2 is being awaited, page 1 having been written
C26_Witness ==
  \E i \in procs :
    /\ IsDriver(inv[i]) /\ inv[i].pc = "fetchCards" /\ inv[i].page = DefaultPage + 1
    /\ Len(CardWritesOf(inv[i])) = 1 /\ CardWritesOf(inv[i])[1].n = DriverPageSize

(***************************************************************************)
(* C27.  Termination of the driver loop: the upstream holding a finite     *)
(* number of cards, so that some page is shorter than pageSize, every      *)
(* driver-mode run reaches done or error; only an upstream that serves at  *)
(* least pageSize records for every page number keeps the loop running.    *)
(* Stated with a variant: a run that is not over awaits an operation that   *)
(* can settle, and every step of it lowers a measure that is never         *)
(* negative.                                                               *)
(***************************************************************************)
\* the first page the finite upstream is sure to serve short
ShortPage == MaxPages + 1

\* the steps the run may still take
Variant(v) ==
  CASE v.pc = "done" -> 0
    [] v.pc \in {"logOk", "logError"} -> 1
    [] v.pc = "upsertCards" -> 2 + 2 * (ShortPage - v.page)
    [] v.pc = "fetchCards" -> 3 + 2 * (ShortPage - v.page)
    [] v.pc = "upsertSets" -> 2 + 2 * ShortPage
    [] v.pc = "fetchSets" -> 3 + 2 * ShortPage
    [] OTHER -> 0

\* done: the result was returned; error: the error was rethrown or answered
DriverOver(v) == v.pc = "done" /\ v.resp # NoResp

\* the run awaits an operation that can settle: a fetch the upstream has an
\* answer to, an upsert or a ledger insert
CanStep(v) ==
  \/ v.pc = "fetchSets" /\ SetsServed # {} /\ FetchStatuses # {}
  \/ v.pc = "fetchCards" /\ PageServed(v.page) # {} /\ FetchStatuses # {}
  \/ v.pc \in {"upsertSets", "upsertCards", "logOk", "logError"} /\ StoreFaults # {}

C27_NeverStuck ==
  \A i \in procs :
    IsDriver(inv[i]) =>
      /\ DriverOver(inv[i]) \/ CanStep(inv[i])
      /\ Variant(inv[i]) >= 0
      /\ Variant(inv[i]) = 0 <=> DriverOver(inv[i])

C27_VariantDecreases ==
  \A i \in procs :
    IsDriver(inv[i]) =>
      IsDriver(inv'[i]) /\ Variant(inv'[i]) < Variant(inv[i])

C27_DriverTerminates == [](C27_NeverStuck) /\ [][C27_VariantDecreases]_vars

\* a loop ended by a short second page
C27_Witness ==
  \E i \in procs :
    /\ IsDriver(inv[i]) /\ DriverOver(inv[i]) /\ Succeeded(inv[i])
    /\ Len(CardFetchesOf(inv[i])) = DefaultPage + 1
    /\ CardFetchesOf(inv[i])[DefaultPage].len >= DriverPageSize
    /\ CardFetchesOf(inv[i])[DefaultPage + 1].len \in 1..(DriverPageSize - 1)

(***************************************************************************)
(* C28.  No card is skipped: the upstream serving its N >= 0 cards as      *)
(* consecutive pages of pageSize (also for N = 0 and for N an exact        *)
(* multiple of pageSize), after a driver-mode run that reached done, and   *)
(* after a continuation-mode sequence followed until hasMore = false, the  *)
(* cards table holds every one of the N card ids.                          *)
(***************************************************************************)
\* the card fetches of the whole logical run, over all its invocations
RunFetchedCards(v) == SelectSeq(v.fetches, LAMBDA r : r.what = "cards")

\* the run is complete: the driver returned, or the endpoint said hasMore = false
RunComplete(v) ==
  /\ v.pc = "done" /\ Succeeded(v)
  /\ IsDriver(v) \/ (v.kind = "endpoint" /\ IsPost(v)
                      /\ "hasMore" \in DOMAIN v.resp.body /\ ~v.resp.body.hasMore)

\* the pages were asked for from page 1 on, and no page is longer than pageSize
ServedAsPages(v) ==
  LET cf == RunFetchedCards(v)
  IN /\ Len(cf) > 0 /\ cf[1].page = DefaultPage
     /\ \A j \in 1..Len(cf) : cf[j].len <= cf[j].pageSize

C28_NoCardSkipped ==
  \A i \in procs :
    LET v == inv[i]
        cf == RunFetchedCards(v)
    IN RunComplete(v) /\ ServedAsPages(v) =>
         \* every page up to the first short one was read ...
         /\ \A j \in 1..Len(cf) :
              /\ cf[j].page = j /\ cf[j].status = 200
              /\ cf[j].pageSize = cf[1].pageSize
              /\ (j < Len(cf)) <=> (cf[j].len = cf[j].pageSize)
         \* ... and every card of those pages is in the table
         /\ \A j \in 1..Len(cf) :
              \A c \in PageIds(j, cf[j].len) : Str(c) \in DOMAIN cards
         /\ Cardinality(DOMAIN cards) = SumLen(cf)

\* N = pageSize + 1 cards in continuation mode; N = 0; N = pageSize for a driver
C28_Witness ==
  \E i \in procs :
    /\ inv[i].kind = "endpoint" /\ RunComplete(inv[i]) /\ ServedAsPages(inv[i])
    /\ Len(RunFetchedCards(inv[i])) = DefaultPage + 1
    /\ Cardinality(DOMAIN cards) = DriverPageSize + 1

(***************************************************************************)
(* C29.  Cursor well-formedness: for every request body, the cursor the    *)
(* endpoint acts on and every cursor it returns has step "sets" or "cards" *)
(* and a page and a pageSize that are positive integers; a page or         *)
(* pageSize that is missing, not a number, zero or negative is replaced by *)
(* 1 and 250.                                                              *)
(***************************************************************************)
\* the cursors the invocation parsed from its request
ActedOn(v) == SelectSeq(v.trail, LAMBDA c : c.inv = v.id)

PositiveInt(n) == n \in Nat /\ n > 0

Unusable(x) == x.t # "number" \/ x.v <= 0

PagesWellFormed(v) ==
  /\ \A j \in 1..Len(ActedOn(v)) :
       LET c == ActedOn(v)[j]
           body == IF v.req.body = Undefined THEN EmptyBody ELSE v.req.body
       IN /\ PositiveInt(c.page) /\ PositiveInt(c.pageSize)
          /\ Unusable(body.v.page) => c.page = DefaultPage
          /\ Unusable(body.v.pageSize) => c.pageSize = DefaultPageSize
          /\ ~Unusable(body.v.page) => c.page = body.v.page.v
          /\ ~Unusable(body.v.pageSize) => c.pageSize = body.v.pageSize.v
  /\ Succeeded(v) /\ "next" \in DOMAIN v.resp.body =>
       /\ v.resp.body.next.step \in {"sets", "cards"}
       /\ PositiveInt(v.resp.body.next.page) /\ PositiveInt(v.resp.body.next.pageSize)
  /\ Succeeded(v) /\ "hasMore" \in DOMAIN v.resp.body =>
       /\ v.resp.body.step \in {"sets", "cards"}
       /\ PositiveInt(v.resp.body.page) /\ PositiveInt(v.resp.body.pageSize)
       /\ v.resp.body.hasMore =>
            v.resp.body.nextPage.t = "number" /\ PositiveInt(v.resp.body.nextPage.v)

StepWellFormed(v) ==
  \A j \in 1..Len(ActedOn(v)) : ActedOn(v)[j].step \in {Str("sets"), Str("cards")}

C29_CursorWellFormed ==
  \A i \in procs :
    inv[i].kind = "endpoint" /\ IsPost(inv[i]) =>
      StepWellFormed(inv[i]) /\ PagesWellFormed(inv[i])

\* the same, without the requirement on the step the endpoint acts on
C29_PageAndSizeWellFormed ==
  \A i \in procs :
    inv[i].kind = "endpoint" /\ IsPost(inv[i]) => PagesWellFormed(inv[i])

(***************************************************************************)
(* C30, as claimed.  Ledger granularity in continuation mode: a successful *)
(* cards step writes no ledger record, whether or not it is the last page, *)
(* while a successful sets step writes exactly one record, with ok=true.   *)
(***************************************************************************)
CardsStepSucceeded(v) ==
  /\ v.kind = "endpoint" /\ Succeeded(v) /\ IsPost(v)
  /\ "hasMore" \in DOMAIN v.resp.body

C30_LedgerGranularity ==
  \A i \in procs :
    LET v == inv[i]
    IN /\ CardsStepSucceeded(v) => LedgerOf(v) = <<>>
       /\ SetsStepSucceeded(v) => Len(LedgerOf(v)) = 1 /\ LedgerOf(v)[1].ok = TRUE

(***************************************************************************)
(* C30, amended.  A successful cards step attempts no ledger insert and    *)
(* leaves no ledger record, whether or not it is the last page; a          *)
(* successful sets step attempts exactly one insert, of an ok=true record  *)
(* with the notes {sets, step: "sets"}: the ledger holds that one record   *)
(* of the invocation when the store accepts the insert and none when it    *)
(* refuses it.                                                             *)
(***************************************************************************)
C30_LedgerGranularityBestEffort ==
  \A i \in procs :
    LET v == inv[i]
    IN /\ CardsStepSucceeded(v) => LogsOf(v) = <<>> /\ LedgerOf(v) = <<>>
       /\ SetsStepSucceeded(v) =>
            /\ Len(LogsOf(v)) = 1 /\ LogsOf(v)[1].ok = TRUE
            /\ IF LogsOf(v)[1].accepted
                 THEN /\ Len(LedgerOf(v)) = 1
                      /\ LedgerOf(v)[1].ok = TRUE
                      /\ LedgerOf(v)[1].notes = [sets |-> v.nSets, step |-> "sets"]
                 ELSE LedgerOf(v) = <<>>

\* the last cards step of a run whose sets step was recorded: one record in all
C30_Witness ==
  \E i \in procs :
    /\ CardsStepSucceeded(inv[i]) /\ ~inv[i].resp.body.hasMore
    /\ inv[i].resp.body.processed > 0
    /\ inv[i].trail[1].step = Str("sets")
    /\ LedgerOf(inv[i]) = <<>>
    /\ Len(LedgerOfRun(inv[i])) = 1 /\ LedgerOfRun(inv[i])[1].ok = TRUE

(***************************************************************************)
(* C31.  Run record lifecycle: a run record is created when a logical run  *)
(* starts, so that while the run is in flight the ledger holds its record  *)
(* with the finish timestamp absent; that same record is closed exactly    *)
(* once when the run ends and is never changed afterwards.                 *)
(***************************************************************************)
\* the logical run has started and its current invocation has not answered
InFlight(v) == LogicalRun(v) /\ v.pc \notin {"idle", "done"}

\* the record carries a finish timestamp
Closed(row) == row.finished_at \in 0..clock

OpenRecordOf(v) ==
  \E k \in 1..Len(ledger) : ledger[k].run = v.run /\ ~Closed(ledger[k])

C31_RunRecordLifecycle ==
  \A i \in procs :
    /\ InFlight(inv[i]) => OpenRecordOf(inv[i])
    /\ LogicalRun(inv[i]) /\ RunEnded(inv[i]) =>
         /\ Len(LedgerOfRun(inv[i])) = 1
         /\ Closed(LedgerOfRun(inv[i])[1])

\* what the code does keep: every record is written closed, and a record
\* once written is neither changed nor deleted
C31_RecordsWrittenClosedAndKept ==
  /\ [](\A k \in 1..Len(ledger) : Closed(ledger[k]))
  /\ [][/\ Len(ledger') >= Len(ledger)
        /\ SubSeq(ledger', 1, Len(ledger)) = ledger]_vars

(***************************************************************************)
(* C34.  A request whose step is neither "sets" nor "cards" is not         *)
(* rejected: the endpoint runs the cards step for the page and pageSize of *)
(* the request and labels the step of its answer "cards".                  *)
(***************************************************************************)
\* an authorized POST that reached the step with a step of another value
OtherStep(v) ==
  /\ v.kind = "endpoint" /\ IsPost(v) /\ InSyncStep(v)
  /\ v.req.body.t = "object"
  /\ v.req.body.v.step \notin {Undefined, Null, Str("sets"), Str("cards")}

C34_UnknownStepRunsCards ==
  \A i \in procs :
    LET v == inv[i]
    IN OtherStep(v) =>
         /\ v.page = CursorPage(v.req.body) /\ v.pageSize = CursorPageSize(v.req.body)
         /\ SetFetchesOf(v) = <<>>
         /\ \A j \in 1..Len(FetchesOf(v)) :
              /\ FetchesOf(v)[j].page = v.page
              /\ FetchesOf(v)[j].pageSize = v.pageSize
         /\ \A j \in 1..Len(WritesOf(v)) :
              WritesOf(v)[j].table = "cards" /\ WritesOf(v)[j].page = v.page
         /\ v.pc = "done" =>
              /\ Len(CardFetchesOf(v)) = 1
              \* the only refusals are those of a failed fetch or write
              /\ ~Succeeded(v) => FetchFailed(v) \/ WriteFailed(v)
              /\ Succeeded(v) =>
                   v.resp.body = [ step |-> "cards",
                                   processed |-> CardFetchesOf(v)[1].len,
                                   page |-> v.page, pageSize |-> v.pageSize,
                                   hasMore |-> HasMore(CardFetchesOf(v)[1].len, v.pageSize),
                                   nextPage |->
                                     IF HasMore(CardFetchesOf(v)[1].len, v.pageSize)
                                       THEN Num(v.page + 1) ELSE Null ]

\* {step: "bogus", page: 2} fetched page 2 of the cards and was answered 200
\* with step "cards"
C34_Witness ==
  \E i \in procs :
    /\ OtherStep(inv[i]) /\ Succeeded(inv[i])
    /\ inv[i].req.body.v.step = Str("bogus")
    /\ inv[i].req.body.v.page = Num(2)
    /\ Len(CardFetchesOf(inv[i])) = 1 /\ CardFetchesOf(inv[i])[1].page = 2
    /\ inv[i].resp.body.step = "cards" /\ inv[i].resp.body.page = 2

(***************************************************************************)
(* C33.  Partial progress is kept on failure: when a driver-mode run fails *)
(* while fetching or writing card page p, the sets rows and the card rows  *)
(* of pages 1..p-1 written earlier in that run remain in the store (no     *)
(* rollback), and the ledger note of the failed run holds only the error   *)
(* message, not the counts already written.                                *)
(***************************************************************************)
\* the driver run met its failure at a cards page
FailedAtCards(v) ==
  /\ IsDriver(v) /\ v.pc \in {"logError", "done"}
  /\ FetchFailed(v) \/ WriteFailed(v)
  /\ FetchesOf(v)[Len(FetchesOf(v))].what = "cards"
FailedPage(v) == FetchesOf(v)[Len(FetchesOf(v))].page

\* the number of cards the upstream served on the pages before page p
RECURSIVE ServedBefore(_)
ServedBefore(p) == IF p <= 1 THEN 0 ELSE upPages[p - 1] + ServedBefore(p - 1)

\* every row of the batch is in the table as it was written
Holds(table, rows) == \A id \in DOMAIN rows : id \in DOMAIN table /\ table[id] = rows[id]

C33_PartialProgressKept ==
  \A i \in procs :
    LET v == inv[i]
    IN FailedAtCards(v) =>
         /\ Holds(sets, SetInserts(v.nSets, v.started))
         /\ \A q \in 1..FailedPage(v) - 1 :
              Holds(cards, CardInserts(q, upPages[q], v.started))
         /\ v.cardsUpserted = ServedBefore(FailedPage(v))
         /\ \A k \in 1..Len(LedgerOf(v)) :
              /\ LedgerOf(v)[k].ok = FALSE
              /\ LedgerOf(v)[k].notes = [error |-> v.err]

\* syncPokemonTcg failed at page 2: the sets and the whole of page 1 are in the
\* store, and the note of its record is the error message alone
C33_Witness ==
  \E i \in procs :
    /\ inv[i].kind = "service" /\ FailedAtCards(inv[i]) /\ inv[i].pc = "done"
    /\ FailedPage(inv[i]) = 2
    /\ inv[i].nSets = 2 /\ DOMAIN sets = {Str(s) : s \in SetIds(2)}
    /\ DOMAIN cards = {Str(c) : c \in PageIds(1, DriverPageSize)}
    /\ Len(LedgerOf(inv[i])) = 1
    /\ DOMAIN LedgerOf(inv[i])[1].notes = {"error"}
    /\ inv[i].cardsUpserted = DriverPageSize

(***************************************************************************)
(* The inventory page and its CardBinder: the page filters its mock        *)
(* inventory and hands the filtered list to the binder as the `cards`      *)
(* prop; the binder keeps the index of the page it shows in its own state. *)
(***************************************************************************)
\* the inventory has two written-out cards and twenty generated ones
InventorySize == 22
\* cardsPerPage={9}
CardsPerPage == 9

Conditions == {"NM", "LP", "MP", "HP", "DMG"}
\* two of the nine languages of the enum: the one the inventory uses and another
Languages == {"EN", "JA"}
\* what is typed into the search box: nothing, a word of the names of the
\* written-out cards, a word of the names of the generated cards, a word of none
SearchTerms == {"", "venusaur", "mock", "zzz"}

\* the fields of the cards the filters read; `words` stands for the lowercased
\* card_name, set_name and number that the search looks into
mockInventory ==
  [ k \in 1..InventorySize |->
      IF k = 1
        THEN [ words |-> {"venusaur"}, condition |-> "NM", language |-> "EN",
               is_foil |-> FALSE ]
      ELSE IF k = 2
        THEN [ words |-> {"venusaur"}, condition |-> "LP", language |-> "EN",
               is_foil |-> TRUE ]
      ELSE [ words |-> {"mock"},
             condition |-> <<"NM", "LP", "MP">>[((k - 3) % 3) + 1],
             language |-> "EN",
             is_foil |-> (k - 3) % 5 = 0 ] ]

\* the useEffect on [filters]: the inventory narrowed by every filter that is set
FilterCards(filters) ==
  SelectSeq(mockInventory, LAMBDA card :
    /\ Truthy(filters.search) => filters.search.v \in card.words
    /\ filters.condition # Undefined => card.condition = filters.condition.v
    /\ filters.language # Undefined => card.language = filters.language.v
    /\ filters.is_foil # Undefined => card.is_foil = filters.is_foil.v)

\* event.target.value || undefined
OrUndefined(value) == IF value = "" THEN Undefined ELSE Str(value)

\* const totalPages = Math.ceil(cards.length / cardsPerPage)
totalPages == (Len(binder.filteredCards) + CardsPerPage - 1) \div CardsPerPage

InitBinder ==
  /\ env = [SYNC_TOKEN |-> Undefined, hasStoreCreds |-> TRUE]
  /\ upSets = {}
  /\ upPages = [p \in {} |-> 0]
  /\ sets = EmptyTable
  /\ cards = EmptyTable
  /\ ledger = <<>>
  /\ clock = 0
  /\ procs = {}
  /\ inv = [i \in procs |-> Idle]
  /\ calls = <<>>
  /\ mapped = NotMapped
  /\ settings = NoPage
  /\ binder = [NoBinder EXCEPT !.shown = TRUE, !.filteredCards = mockInventory]

\* setFilters(next), then the effect: setFilteredCards(filtered); the binder
\* is rendered again with the new list and the state it had
SetFilters(next) ==
  /\ binder.shown
  /\ binder' = [binder EXCEPT !.filters = next, !.filteredCards = FilterCards(next)]
  /\ UNCHANGED <<env, upSets, upPages, sets, cards, ledger, clock, procs, inv, calls,
                 mapped, settings>>

handleSearchChange(value) ==
  SetFilters([binder.filters EXCEPT !.search = Str(value)])

handleConditionChange(value) ==
  SetFilters([binder.filters EXCEPT !.condition = OrUndefined(value)])

handleLanguageChange(value) ==
  SetFilters([binder.filters EXCEPT !.language = OrUndefined(value)])

\* is_foil: value === "" ? undefined : value === "true"
handleFoilChange(value) ==
  SetFilters([binder.filters EXCEPT
                !.is_foil = IF value = "" THEN Undefined ELSE Bool(value = "true")])

\* the next button, which is disabled on the last page
nextPage ==
  /\ binder.shown
  /\ binder.currentPage # totalPages - 1
  /\ binder' = IF binder.currentPage < totalPages - 1
                 THEN [binder EXCEPT !.flipDirection = "right",
                                     !.currentPage = binder.currentPage + 1]
               ELSE binder
  /\ UNCHANGED <<env, upSets, upPages, sets, cards, ledger, clock, procs, inv, calls,
                 mapped, settings>>

\* the previous button, which is disabled on the first page
prevPage ==
  /\ binder.shown
  /\ binder.currentPage # 0
  /\ binder' = IF binder.currentPage > 0
                 THEN [binder EXCEPT !.flipDirection = "left",
                                     !.currentPage = binder.currentPage - 1]
               ELSE binder
  /\ UNCHANGED <<env, upSets, upPages, sets, cards, ledger, clock, procs, inv, calls,
                 mapped, settings>>

\* a dot of the page navigation: there is one dot for each page of the list
goToPage(page) ==
  /\ binder.shown
  /\ page \in 0..totalPages - 1
  /\ binder' = IF page # binder.currentPage
                 THEN [binder EXCEPT
                         !.flipDirection = IF page > binder.currentPage
                                             THEN "right" ELSE "left",
                         !.currentPage = page]
               ELSE binder
  /\ UNCHANGED <<env, upSets, upPages, sets, cards, ledger, clock, procs, inv, calls,
                 mapped, settings>>

NextBinder ==
  \/ \E value \in SearchTerms : handleSearchChange(value)
  \/ \E value \in {""} \cup Conditions : handleConditionChange(value)
  \/ \E value \in {""} \cup Languages : handleLanguageChange(value)
  \/ \E value \in {"", "true", "false"} : handleFoilChange(value)
  \/ nextPage
  \/ prevPage
  \/ \E page \in 0..(InventorySize \div CardsPerPage) : goToPage(page)

SpecBinder == InitBinder /\ [][NextBinder]_vars

(***************************************************************************)
(* C36.  The page index of the CardBinder stays in range: after any        *)
(* sequence of nextPage, prevPage and goToPage calls and of changes to the *)
(* `cards` prop, 0 <= currentPage <= max(totalPages - 1, 0), so the page   *)
(* shown is never past the last page of the current list.                  *)
(***************************************************************************)
LastPageIndex == IF totalPages - 1 > 0 THEN totalPages - 1 ELSE 0

C36_PageIndexInRange ==
  binder.shown => 0 <= binder.currentPage /\ binder.currentPage <= LastPageIndex

\* what the binder does keep: with the list as it is, its own buttons never
\* take the index out of the range it was in
C36_NavigationKeepsRange ==
  [][(/\ binder'.filteredCards = binder.filteredCards
      /\ binder.currentPage \in 0..LastPageIndex)
       => binder'.currentPage \in 0..LastPageIndex]_vars

(***************************************************************************)
(* The admin Settings page: its React state, the calls of handleSyncNow    *)
(* made from it and the timers those calls started.  The page is a route   *)
(* of the admin layout: leaving the route unmounts the component, coming   *)
(* back mounts a new instance with fresh state, and a state update made    *)
(* for an instance that is no longer mounted changes nothing.              *)
(* syncPokemonTcg is seen from its caller: a promise that is fulfilled     *)
(* with the counts or rejected with an error.                              *)
(***************************************************************************)
\* the calls of handleSyncNow in one behaviour
MaxRuns == 2
\* the ticks of one progress interval in one behaviour
MaxTicks == 2
\* the times the page is opened in one behaviour
MaxMounts == 2

TerminalStages == {"complete", "error"}

\* what syncPokemonTcg resolves with / the messages it rejects with
SyncResults == {SyncResult([nSets |-> n, cardsUpserted |-> n]) : n \in SetLens}
SyncErrors == {ClientError, FetchSetsError(429)}

\* a call of handleSyncNow: the instance it was made from, the progress.stage
\* its closure captured, its two timeouts, its interval and its promise
NewRun(inst, stage) ==
  [ inst |-> inst, closure |-> stage, t1 |-> "pending", t2 |-> "pending",
    interval |-> "active", ticks |-> 0, promise |-> "pending" ]

\* the first render of an instance: the useState initial values
Mounted(inst) ==
  [NoPage EXCEPT !.inst = inst, !.mounts = settings.mounts + 1,
                 !.runs = settings.runs, !.fired = settings.fired,
                 !.endedBy = settings.endedBy]

InitSettings ==
  /\ env = [SYNC_TOKEN |-> Undefined, hasStoreCreds |-> TRUE]
  /\ upSets = {}
  /\ upPages = [p \in {} |-> 0]
  /\ sets = EmptyTable
  /\ cards = EmptyTable
  /\ ledger = <<>>
  /\ clock = 0
  /\ procs = {}
  /\ inv = [i \in procs |-> Idle]
  /\ calls = <<>>
  /\ mapped = NotMapped
  /\ settings = [NoPage EXCEPT !.inst = 1, !.mounts = 1]
  /\ binder = NoBinder

\* a click on the button, which is disabled={syncing}: the handler up to its
\* await of syncPokemonTcg()
handleSyncNow_Begin ==
  /\ settings.inst > 0 /\ ~settings.syncing
  /\ Len(settings.runs) < MaxRuns
  /\ settings' =
       [settings EXCEPT
          !.syncError = Null, !.syncResult = Null, !.syncing = TRUE,
          !.progress = [stage |-> "fetching-sets", isProcessing |-> TRUE],
          !.endedBy = 0,
          !.runs = Append(@, NewRun(settings.inst, settings.progress.stage))]
  /\ UNCHANGED <<env, upSets, upPages, sets, cards, ledger, clock, procs, inv, calls,
                 mapped, binder>>

\* the state after a setProgress made by call c
SetProgress(c, progress) ==
  IF settings.runs[c].inst = settings.inst
    THEN [settings EXCEPT !.progress = progress]
  ELSE settings

\* setTimeout(..., 1000): the timeouts of equal delay fire in the order set
handleSyncNow_Timeout1(c) ==
  /\ settings.runs[c].t1 = "pending"
  /\ \A b \in 1..c - 1 : settings.runs[b].t1 # "pending"
  /\ settings' =
       [SetProgress(c, [stage |-> "syncing-sets", isProcessing |-> TRUE]) EXCEPT
          !.runs[c].t1 = "fired", !.fired = @ + 1]
  /\ UNCHANGED <<env, upSets, upPages, sets, cards, ledger, clock, procs, inv, calls,
                 mapped, binder>>

\* setTimeout(..., 2000)
handleSyncNow_Timeout2(c) ==
  /\ settings.runs[c].t2 = "pending" /\ settings.runs[c].t1 = "fired"
  /\ \A b \in 1..c - 1 : settings.runs[b].t2 # "pending"
  /\ settings' =
       [SetProgress(c, [stage |-> "fetching-cards", isProcessing |-> TRUE]) EXCEPT
          !.runs[c].t2 = "fired", !.fired = @ + 1]
  /\ UNCHANGED <<env, upSets, upPages, sets, cards, ledger, clock, procs, inv, calls,
                 mapped, binder>>

\* setInterval(..., 2000): the callback reads progress.stage of the render the
\* handler was made in, and its first tick is due when the 2 s timeout is
handleSyncNow_Interval(c) ==
  /\ settings.runs[c].interval = "active" /\ settings.runs[c].t2 = "fired"
  /\ settings.runs[c].ticks < MaxTicks
  /\ settings' =
       [ (IF settings.runs[c].closure \in {"syncing-cards", "fetching-cards"}
            THEN SetProgress(c, [settings.progress EXCEPT !.stage = "syncing-cards",
                                                          !.isProcessing = TRUE])
          ELSE settings) EXCEPT
          !.runs[c].ticks = @ + 1, !.fired = @ + 1]
  /\ UNCHANGED <<env, upSets, upPages, sets, cards, ledger, clock, procs, inv, calls,
                 mapped, binder>>

\* syncPokemonTcg() resolved: clearInterval, the result, stage complete, and
\* setSyncing(false) of the finally block
handleSyncNow_Resolved(c, result) ==
  /\ settings.runs[c].promise = "pending"
  /\ settings' =
       [ (IF settings.runs[c].inst = settings.inst
            THEN [settings EXCEPT
                    !.lastSync = Str("t" \o ToString(c)), !.syncResult = Obj(result),
                    !.progress = [stage |-> "complete", isProcessing |-> FALSE],
                    !.endedBy = c, !.syncing = FALSE]
          ELSE settings) EXCEPT
          !.runs[c].interval = "cleared", !.runs[c].promise = "fulfilled"]
  /\ UNCHANGED <<env, upSets, upPages, sets, cards, ledger, clock, procs, inv, calls,
                 mapped, binder>>

\* syncPokemonTcg() rejected: the catch block and the finally block
handleSyncNow_Rejected(c, message) ==
  /\ settings.runs[c].promise = "pending"
  /\ settings' =
       [ (IF settings.runs[c].inst = settings.inst
            THEN [settings EXCEPT
                    !.syncError = Str(message),
                    !.progress = [stage |-> "error", isProcessing |-> FALSE],
                    !.endedBy = c, !.syncing = FALSE]
          ELSE settings) EXCEPT
          !.runs[c].promise = "rejected"]
  /\ UNCHANGED <<env, upSets, upPages, sets, cards, ledger, clock, procs, inv, calls,
                 mapped, binder>>

\* a NavLink of the sidebar to another route: the component is unmounted; its
\* calls and their timers go on
Settings_Leave ==
  /\ settings.inst > 0
  /\ settings' = [NoPage EXCEPT !.mounts = settings.mounts, !.runs = settings.runs,
                                !.fired = settings.fired, !.endedBy = settings.endedBy]
  /\ UNCHANGED <<env, upSets, upPages, sets, cards, ledger, clock, procs, inv, calls,
                 mapped, binder>>

\* the NavLink to /admin/settings: a new instance of the component
Settings_Open ==
  /\ settings.inst = 0 /\ settings.mounts < MaxMounts
  /\ settings' = Mounted(settings.mounts + 1)
  /\ UNCHANGED <<env, upSets, upPages, sets, cards, ledger, clock, procs, inv, calls,
                 mapped, binder>>

NextSettings ==
  \/ handleSyncNow_Begin
  \/ \E c \in 1..Len(settings.runs) : handleSyncNow_Timeout1(c)
  \/ \E c \in 1..Len(settings.runs) : handleSyncNow_Timeout2(c)
  \/ \E c \in 1..Len(settings.runs) : handleSyncNow_Interval(c)
  \/ \E c \in 1..Len(settings.runs), result \in SyncResults :
       handleSyncNow_Resolved(c, result)
  \/ \E c \in 1..Len(settings.runs), message \in SyncErrors :
       handleSyncNow_Rejected(c, message)
  \/ Settings_Leave
  \/ Settings_Open

SpecSettings == InitSettings /\ [][NextSettings]_vars

(***************************************************************************)
(* C32.  The admin sync page serializes runs: from the moment              *)
(* handleSyncNow starts until syncPokemonTcg has settled the trigger       *)
(* button is disabled, so the page never has two sync runs outstanding at  *)
(* once, and the syncing flag is cleared again after both a successful and *)
(* a failed run.                                                           *)
(***************************************************************************)
\* the calls whose syncPokemonTcg has not settled
Outstanding == {c \in 1..Len(settings.runs) : settings.runs[c].promise = "pending"}
\* those of them made from the instance now on the screen
OutstandingHere == {c \in Outstanding : settings.runs[c].inst = settings.inst}

\* the button of the page on the screen can be clicked
ButtonEnabled == settings.inst > 0 /\ ~settings.syncing

C32_PageSerializesRuns ==
  /\ Outstanding # {} => ~ButtonEnabled
  /\ Cardinality(Outstanding) <= 1
  /\ Outstanding = {} => ~settings.syncing

\* what the page does keep: an instance of the page has at most one run of its
\* own outstanding, its button is disabled exactly while it has one, and its
\* flag is cleared when that run has settled, fulfilled or rejected
C32_SerializedWhileMounted ==
  /\ Cardinality(OutstandingHere) <= 1
  /\ settings.syncing <=> OutstandingHere # {}
  /\ \A c \in 1..Len(settings.runs) :
       (settings.endedBy = c /\ settings.runs[c].inst = settings.inst) =>
         /\ ~settings.syncing
         /\ settings.runs[c].promise \in {"fulfilled", "rejected"}
         /\ settings.runs[c].promise = "rejected" => settings.syncError # Null

(***************************************************************************)
(* C35.  On the admin sync page a terminal progress stage is stable: once  *)
(* handleSyncNow has set the stage to complete or error, no timer started  *)
(* by that call (the 1 s and 2 s timeouts and the 2 s progress interval)   *)
(* changes the stage afterwards, and no such timer is still active after   *)
(* the call has finished, on the failure path as well as the success path. *)
(***************************************************************************)
Finished(run) == run.promise # "pending"
TimerActive(run) ==
  run.t1 = "pending" \/ run.t2 = "pending" \/ run.interval = "active"

\* a timer callback of call c runs in this step
TimerFiredOf(c) ==
  \/ settings'.runs[c].t1 # settings.runs[c].t1
  \/ settings'.runs[c].t2 # settings.runs[c].t2
  \/ settings'.runs[c].ticks # settings.runs[c].ticks

C35_NoTimerAfterFinish ==
  \A c \in 1..Len(settings.runs) :
    Finished(settings.runs[c]) => ~TimerActive(settings.runs[c])

C35_StageKept ==
  \A c \in 1..Len(settings.runs) :
    (/\ settings.progress.stage \in TerminalStages
     /\ settings.endedBy = c
     /\ TimerFiredOf(c)) => settings'.progress.stage = settings.progress.stage

C35_TerminalStageStable == []C35_NoTimerAfterFinish /\ [][C35_StageKept]_vars

\* what the handler does keep: the interval of a call that succeeded is cleared
C35_IntervalClearedOnSuccess ==
  \A c \in 1..Len(settings.runs) :
    settings.runs[c].promise = "fulfilled" => settings.runs[c].interval = "cleared"

=============================================================================
